---- MODULE Spec2Model ----
(***************************************************************************)
(* Model of parseCloudInitLog.ParseCloudInit (parse.go): a single forward  *)
(* pass over the lines of a serial-console transcript that fills a         *)
(* CloudInitData value.  Strings are sequences of one-character strings,   *)
(* the regular expressions of parse.go are sequences of quantified         *)
(* character classes matched with Go's leftmost-first (backtracking)       *)
(* semantics, and one loop iteration is one action.                        *)
(***************************************************************************)
EXTENDS Integers, Sequences, FiniteSets, TLC

(***************************************************************************)
(* Characters and character classes.                                       *)
(***************************************************************************)
Digit == {"0", "1", "2", "3", "4", "5", "6", "7", "8", "9"}

Lower == {"a", "b", "c", "d", "e", "f", "g", "h", "i", "j", "k", "l", "m",
          "n", "o", "p", "q", "r", "s", "t", "u", "v", "w", "x", "y", "z"}

Upper == {"A", "B", "C", "D", "E", "F", "G", "H", "I", "J", "K", "L", "M",
          "N", "O", "P", "Q", "R", "S", "T", "U", "V", "W", "X", "Y", "Z"}

\* \s of Go's regexp (RE2): [\t\n\f\r ]
ReSpace == {"\t", "\n", "\f", "\r", " "}

\* \w of Go's regexp: [0-9A-Za-z_]
ReWord == Digit \cup Lower \cup Upper \cup {"_"}

\* The characters strings.TrimSpace removes (unicode.IsSpace in Latin-1):
\* \t \n \v \f \r space, U+0085, U+00A0.  The three characters TLA+ has no
\* escape for are written as named one-element tokens.
UnicodeSpace == {"\t", "\n", "\f", "\r", " ", "<VT>", "<NEL>", "<NBSP>"}

(***************************************************************************)
(* Regular expressions.  An atom is a character class (a set `in`,         *)
(* complemented when `neg`), a repetition range min..1 or min..infinity    *)
(* (`many`), a greediness flag and the number of the capture group it lies *)
(* in (0: none).  A regexp is a sequence of alternatives, each a sequence  *)
(* of atoms, with the anchors ^ (`fromStart`) and $ (`toEnd`).             *)
(***************************************************************************)
One(set) == <<[in |-> set, neg |-> FALSE, min |-> 1, many |-> FALSE, lazy |-> FALSE, g |-> 0]>>

Plus(set) == <<[in |-> set, neg |-> FALSE, min |-> 1, many |-> TRUE, lazy |-> FALSE, g |-> 0]>>

Star(set) == <<[in |-> set, neg |-> FALSE, min |-> 0, many |-> TRUE, lazy |-> FALSE, g |-> 0]>>

NotPlus(set) == <<[in |-> set, neg |-> TRUE, min |-> 1, many |-> TRUE, lazy |-> FALSE, g |-> 0]>>

NotStar(set) == <<[in |-> set, neg |-> TRUE, min |-> 0, many |-> TRUE, lazy |-> FALSE, g |-> 0]>>

NotPlusLazy(set) == <<[in |-> set, neg |-> TRUE, min |-> 1, many |-> TRUE, lazy |-> TRUE, g |-> 0]>>

Lit(str) == [i \in 1..Len(str) |-> [in |-> {str[i]}, neg |-> FALSE, min |-> 1, many |-> FALSE, lazy |-> FALSE, g |-> 0]]

Group(n, atoms) == [i \in 1..Len(atoms) |-> [atoms[i] EXCEPT !.g = n]]

NoMatch == [ok |-> FALSE, start |-> 0, lens |-> <<>>, alt |-> 0]

Accepts(atom, ch) == (ch \in atom.in) # atom.neg

\* Number of consecutive characters of s from position i on that the atom accepts.
RECURSIVE RunLen(_, _, _)
RunLen(atom, s, i) ==
    IF i > Len(s) \/ ~Accepts(atom, s[i]) THEN 0
    ELSE 1 + RunLen(atom, s, i + 1)

\* Backtracking match of atoms[k..] against s from position i; the result
\* lists how many characters each atom consumed.  A greedy atom tries the
\* longest run first, a lazy one the shortest.
RECURSIVE MatchFrom(_, _, _, _, _)
RECURSIVE TryLen(_, _, _, _, _, _, _, _)
MatchFrom(atoms, toEnd, k, s, i) ==
    IF k > Len(atoms)
    THEN IF toEnd /\ i # Len(s) + 1 THEN NoMatch
         ELSE [ok |-> TRUE, start |-> 0, lens |-> <<>>, alt |-> 0]
    ELSE LET a   == atoms[k]
             run == RunLen(a, s, i)
             hi  == IF a.many \/ run = 0 THEN run ELSE 1
         IN  IF hi < a.min THEN NoMatch
             ELSE TryLen(atoms, toEnd, k, s, i, IF a.lazy THEN a.min ELSE hi, a.min, hi)

TryLen(atoms, toEnd, k, s, i, n, lo, hi) ==
    LET r == MatchFrom(atoms, toEnd, k + 1, s, i + n)
    IN  IF r.ok THEN [r EXCEPT !.lens = <<n>> \o r.lens]
        ELSE IF atoms[k].lazy
             THEN IF n < hi THEN TryLen(atoms, toEnd, k, s, i, n + 1, lo, hi) ELSE NoMatch
             ELSE IF n > lo THEN TryLen(atoms, toEnd, k, s, i, n - 1, lo, hi) ELSE NoMatch

\* The alternatives are tried in order at one start position.
RECURSIVE MatchAlts(_, _, _, _)
MatchAlts(re, a, s, p) ==
    IF a > Len(re.alts) THEN NoMatch
    ELSE LET r == MatchFrom(re.alts[a], re.toEnd, 1, s, p)
         IN  IF r.ok THEN [r EXCEPT !.start = p, !.alt = a]
             ELSE MatchAlts(re, a + 1, s, p)

\* The leftmost start position at which the regexp matches.
RECURSIVE MatchAt(_, _, _)
MatchAt(re, s, p) ==
    IF p > Len(s) + 1 THEN NoMatch
    ELSE LET r == MatchAlts(re, 1, s, p)
         IN  IF r.ok THEN r
             ELSE IF re.fromStart THEN NoMatch
             ELSE MatchAt(re, s, p + 1)

RECURSIVE SumLens(_, _)
SumLens(lens, k) == IF k = 0 THEN 0 ELSE lens[k] + SumLens(lens, k - 1)

\* The text captured by group n of match m of re in s ("" when the group
\* took no part in the match).
Submatch(re, s, m, n) ==
    LET atoms == re.alts[m.alt]
        idx   == {k \in 1..Len(atoms) : atoms[k].g = n}
    IN  IF idx = {} THEN <<>>
        ELSE LET first == CHOOSE k \in idx : \A j \in idx : k <= j
                 last  == CHOOSE k \in idx : \A j \in idx : k >= j
                 from  == m.start + SumLens(m.lens, first - 1)
                 to    == m.start + SumLens(m.lens, last) - 1
             IN  SubSeq(s, from, to)

\* regexp.FindStringSubmatch: nil (ok = FALSE) or the captured groups.
FindStringSubmatch(re, s, ngroups) ==
    LET m == MatchAt(re, s, 1)
    IN  IF ~m.ok THEN [ok |-> FALSE, grp |-> <<>>]
        ELSE [ok |-> TRUE, grp |-> [n \in 1..ngroups |-> Submatch(re, s, m, n)]]

(***************************************************************************)
(* String literals of parse.go and the strings package.                    *)
(***************************************************************************)
StrEth0 == <<"e", "t", "h", "0">>

StrTrue == <<"T", "r", "u", "e">>

StrLogin == <<"l", "o", "g", "i", "n", ":">>

StrSHA256 == <<"S", "H", "A", "2", "5", "6", ":">>

StrRootAt == <<"r", "o", "o", "t", "@">>

StrSsh == <<"s", "s", "h", "-">>

StrEcdsa == <<"e", "c", "d", "s", "a", "-">>

\* "-----BEGIN SSH HOST KEY KEYS-----"
BeginHostKeys == <<"-", "-", "-", "-", "-", "B", "E", "G", "I", "N", " ",
    "S", "S", "H", " ", "H", "O", "S", "T", " ", "K", "E", "Y", " ", "K",
    "E", "Y", "S", "-", "-", "-", "-", "-">>

\* "-----END SSH HOST KEY KEYS-----"
EndHostKeys == <<"-", "-", "-", "-", "-", "E", "N", "D", " ", "S", "S",
    "H", " ", "H", "O", "S", "T", " ", "K", "E", "Y", " ", "K", "E", "Y",
    "S", "-", "-", "-", "-", "-">>

StrCiInfo == <<"c", "i", "-", "i", "n", "f", "o", ":">>

\* "ci-info: +"
StrCiInfoBorder == <<"c", "i", "-", "i", "n", "f", "o", ":", " ", "+">>

\* "for user "
StrForUser == <<"f", "o", "r", " ", "u", "s", "e", "r", " ">>

\* " bits"
StrBits == <<" ", "b", "i", "t", "s">>

StrDash == <<"-">>

\* strings.HasPrefix
HasPrefix(s, prefix) ==
    Len(s) >= Len(prefix) /\ SubSeq(s, 1, Len(prefix)) = prefix

\* strings.Contains
StringsContains(s, substr) ==
    \E p \in 1..(Len(s) - Len(substr) + 1) : SubSeq(s, p, p + Len(substr) - 1) = substr

\* strings.TrimSpace
RECURSIVE TrimLeft(_)
TrimLeft(s) == IF s # <<>> /\ Head(s) \in UnicodeSpace THEN TrimLeft(Tail(s)) ELSE s

RECURSIVE TrimRight(_)
TrimRight(s) ==
    IF s # <<>> /\ s[Len(s)] \in UnicodeSpace THEN TrimRight(SubSeq(s, 1, Len(s) - 1)) ELSE s

TrimSpace(s) == TrimRight(TrimLeft(s))

(***************************************************************************)
(* The package-level regular expressions (parse.go, var block).            *)
(***************************************************************************)
\* Mutant: the up column may hold any word.
\* \|\s+eth0\s+\|\s+[A-Za-z]+\s+\|\s+(\d+\.\d+\.\d+\.\d+)\s+\|
ipv4RegexAnyFlag ==
    [alts |-> << One({"|"}) \o Plus(ReSpace) \o Lit(StrEth0) \o Plus(ReSpace)
                 \o One({"|"}) \o Plus(ReSpace) \o Plus(Upper \cup Lower) \o Plus(ReSpace)
                 \o One({"|"}) \o Plus(ReSpace)
                 \o Group(1, Plus(Digit) \o One({"."}) \o Plus(Digit) \o One({"."})
                             \o Plus(Digit) \o One({"."}) \o Plus(Digit))
                 \o Plus(ReSpace) \o One({"|"}) >>,
     fromStart |-> FALSE, toEnd |-> FALSE]

\* Mutant: the padding after the address is part of the capture.
\* \|\s+eth0\s+\|\s+True\s+\|\s+(\d+\.\d+\.\d+\.\d+\s+)\|
ipv4RegexWithPadding ==
    [alts |-> << One({"|"}) \o Plus(ReSpace) \o Lit(StrEth0) \o Plus(ReSpace)
                 \o One({"|"}) \o Plus(ReSpace) \o Lit(StrTrue) \o Plus(ReSpace)
                 \o One({"|"}) \o Plus(ReSpace)
                 \o Group(1, Plus(Digit) \o One({"."}) \o Plus(Digit) \o One({"."})
                             \o Plus(Digit) \o One({"."}) \o Plus(Digit)
                             \o Plus(ReSpace))
                 \o One({"|"}) >>,
     fromStart |-> FALSE, toEnd |-> FALSE]

\* \|\s+eth0\s+\|\s+True\s+\|\s+(\d+\.\d+\.\d+\.\d+)\s+\|
ipv4Regex ==
    [alts |-> << One({"|"}) \o Plus(ReSpace) \o Lit(StrEth0) \o Plus(ReSpace)
                 \o One({"|"}) \o Plus(ReSpace) \o Lit(StrTrue) \o Plus(ReSpace)
                 \o One({"|"}) \o Plus(ReSpace)
                 \o Group(1, Plus(Digit) \o One({"."}) \o Plus(Digit) \o One({"."})
                             \o Plus(Digit) \o One({"."}) \o Plus(Digit))
                 \o Plus(ReSpace) \o One({"|"}) >>,
     fromStart |-> FALSE, toEnd |-> FALSE]

\* \|\s+eth0\s+\|\s+True\s+\|\s+([0-9a-f:]+/\d+)\s+\|
ipv6Regex ==
    [alts |-> << One({"|"}) \o Plus(ReSpace) \o Lit(StrEth0) \o Plus(ReSpace)
                 \o One({"|"}) \o Plus(ReSpace) \o Lit(StrTrue) \o Plus(ReSpace)
                 \o One({"|"}) \o Plus(ReSpace)
                 \o Group(1, Plus(Digit \cup {"a", "b", "c", "d", "e", "f", ":"})
                             \o One({"/"}) \o Plus(Digit))
                 \o Plus(ReSpace) \o One({"|"}) >>,
     fromStart |-> FALSE, toEnd |-> FALSE]

\* Mutant: the digest name before the colon is not fixed to SHA256.
\* (\d+)\s+([A-Z0-9]+:[A-Za-z0-9+/]+)\s+root@(\S+)\s+\((\w+)\)
hashRegexAnyDigest ==
    [alts |-> << Group(1, Plus(Digit)) \o Plus(ReSpace)
                 \o Group(2, Plus(Upper \cup Digit) \o One({":"})
                             \o Plus(Upper \cup Lower \cup Digit \cup {"+", "/"}))
                 \o Plus(ReSpace) \o Lit(StrRootAt) \o Group(3, NotPlus(ReSpace))
                 \o Plus(ReSpace) \o One({"("}) \o Group(4, Plus(ReWord)) \o One({")"}) >>,
     fromStart |-> FALSE, toEnd |-> FALSE]

\* (\d+)\s+(SHA256:[A-Za-z0-9+/]+)\s+root@(\S+)\s+\((\w+)\)
hashRegex ==
    [alts |-> << Group(1, Plus(Digit)) \o Plus(ReSpace)
                 \o Group(2, Lit(StrSHA256) \o Plus(Upper \cup Lower \cup Digit \cup {"+", "/"}))
                 \o Plus(ReSpace) \o Lit(StrRootAt) \o Group(3, NotPlus(ReSpace))
                 \o Plus(ReSpace) \o One({"("}) \o Group(4, Plus(ReWord)) \o One({")"}) >>,
     fromStart |-> FALSE, toEnd |-> FALSE]

\* Mutant: the expression is anchored at the start of the line.
\* ^(\S+)\s+login:\s*$
hostnameRegexAnchored ==
    [alts |-> << Group(1, NotPlus(ReSpace)) \o Plus(ReSpace) \o Lit(StrLogin)
                 \o Star(ReSpace) >>,
     fromStart |-> TRUE, toEnd |-> TRUE]

\* Mutant: the token in front of the prompt may be empty.
\* (\S*)\s+login:\s*$
hostnameRegexEmptyToken ==
    [alts |-> << Group(1, NotStar(ReSpace)) \o Plus(ReSpace) \o Lit(StrLogin)
                 \o Star(ReSpace) >>,
     fromStart |-> FALSE, toEnd |-> TRUE]

\* (\S+)\s+login:\s*$
hostnameRegex ==
    [alts |-> << Group(1, NotPlus(ReSpace)) \o Plus(ReSpace) \o Lit(StrLogin)
                 \o Star(ReSpace) >>,
     fromStart |-> FALSE, toEnd |-> TRUE]

\* ^(ssh-\S+|ecdsa-\S+)\s+\S+\s+root@(\S+)
sshKeyRegex ==
    [alts |-> << Group(1, Lit(StrSsh) \o NotPlus(ReSpace)) \o Plus(ReSpace)
                 \o NotPlus(ReSpace) \o Plus(ReSpace) \o Lit(StrRootAt)
                 \o Group(2, NotPlus(ReSpace)),
                 Group(1, Lit(StrEcdsa) \o NotPlus(ReSpace)) \o Plus(ReSpace)
                 \o NotPlus(ReSpace) \o Plus(ReSpace) \o Lit(StrRootAt)
                 \o Group(2, NotPlus(ReSpace)) >>,
     fromStart |-> TRUE, toEnd |-> FALSE]

\* ^ci-info:\s+\+.*for user ([^+\s]+)\+
authKeyUser ==
    [alts |-> << Lit(StrCiInfo) \o Plus(ReSpace) \o One({"+"}) \o NotStar({"\n"})
                 \o Lit(StrForUser) \o Group(1, NotPlus(ReSpace \cup {"+"}))
                 \o One({"+"}) >>,
     fromStart |-> TRUE, toEnd |-> FALSE]

\* Mutant: the row must end after its fourth column.
\* ^ci-info:\s+\|\s*([^|]+?)\s*\|\s*([^|]+?)\s*\|\s*([^|]+?)\s*\|\s*([^|]+?)\s*\|\s*$
authKeyRowAnchored ==
    [alts |-> << Lit(StrCiInfo) \o Plus(ReSpace) \o One({"|"})
                 \o Star(ReSpace) \o Group(1, NotPlusLazy({"|"})) \o Star(ReSpace) \o One({"|"})
                 \o Star(ReSpace) \o Group(2, NotPlusLazy({"|"})) \o Star(ReSpace) \o One({"|"})
                 \o Star(ReSpace) \o Group(3, NotPlusLazy({"|"})) \o Star(ReSpace) \o One({"|"})
                 \o Star(ReSpace) \o Group(4, NotPlusLazy({"|"})) \o Star(ReSpace) \o One({"|"})
                 \o Star(ReSpace) >>,
     fromStart |-> TRUE, toEnd |-> TRUE]

\* ^ci-info:\s+\|\s*([^|]+?)\s*\|\s*([^|]+?)\s*\|\s*([^|]+?)\s*\|\s*([^|]+?)\s*\|
authKeyRow ==
    [alts |-> << Lit(StrCiInfo) \o Plus(ReSpace) \o One({"|"})
                 \o Star(ReSpace) \o Group(1, NotPlusLazy({"|"})) \o Star(ReSpace) \o One({"|"})
                 \o Star(ReSpace) \o Group(2, NotPlusLazy({"|"})) \o Star(ReSpace) \o One({"|"})
                 \o Star(ReSpace) \o Group(3, NotPlusLazy({"|"})) \o Star(ReSpace) \o One({"|"})
                 \o Star(ReSpace) \o Group(4, NotPlusLazy({"|"})) \o Star(ReSpace) \o One({"|"}) >>,
     fromStart |-> TRUE, toEnd |-> FALSE]

(***************************************************************************)
(* Transcript lines.  The transcripts scanned are the bounded sequences of  *)
(* lines drawn from one of the fixtures below; a fixture mixes lines of    *)
(* one sub-format of the console output with lines that change the scan    *)
(* mode.                                                                   *)
(***************************************************************************)
\* "a login: "
LoginA == <<"a", " ", "l", "o", "g", "i", "n", ":", " ">>

\* "b login:"
LoginB == <<"b", " ", "l", "o", "g", "i", "n", ":">>

\* "-----BEGIN SSH HOST KEY KEYS-----"
BeginLine == <<"-", "-", "-", "-", "-", "B", "E", "G", "I", "N", " ", "S",
    "S", "H", " ", "H", "O", "S", "T", " ", "K", "E", "Y", " ", "K", "E",
    "Y", "S", "-", "-", "-", "-", "-">>

\* "-----END SSH HOST KEY KEYS-----"
EndLine == <<"-", "-", "-", "-", "-", "E", "N", "D", " ", "S", "S", "H",
    " ", "H", "O", "S", "T", " ", "K", "E", "Y", " ", "K", "E", "Y", "S",
    "-", "-", "-", "-", "-">>

\* "ssh-ed25519 AAAA root@c"
KeyC == <<"s", "s", "h", "-", "e", "d", "2", "5", "5", "1", "9", " ", "A",
    "A", "A", "A", " ", "r", "o", "o", "t", "@", "c">>

\* " ecdsa-sha2 BB+/ root@d \r"
KeyD == <<" ", "e", "c", "d", "s", "a", "-", "s", "h", "a", "2", " ", "B",
    "B", "+", "/", " ", "r", "o", "o", "t", "@", "d", " ", "\r">>

\* "ssh-rsa CCCC"
KeyNoHost == <<"s", "s", "h", "-", "r", "s", "a", " ", "C", "C", "C", "C">>

\* "hello world"
Hello == <<"h", "e", "l", "l", "o", " ", "w", "o", "r", "l", "d">>

\* "ci-info: | eth0 | True | 10.0.0.5 | 255.0.0.0 |"
Addr5 == <<"c", "i", "-", "i", "n", "f", "o", ":", " ", "|", " ", "e", "t",
    "h", "0", " ", "|", " ", "T", "r", "u", "e", " ", "|", " ", "1", "0",
    ".", "0", ".", "0", ".", "5", " ", "|", " ", "2", "5", "5", ".", "0",
    ".", "0", ".", "0", " ", "|">>

\* "ci-info: |  eth0  |  True  |   10.0.0.5   | 255.0.0.0 |"
Addr5Pad == <<"c", "i", "-", "i", "n", "f", "o", ":", " ", "|", " ", " ",
    "e", "t", "h", "0", " ", " ", "|", " ", " ", "T", "r", "u", "e", " ",
    " ", "|", " ", " ", " ", "1", "0", ".", "0", ".", "0", ".", "5", " ",
    " ", " ", "|", " ", "2", "5", "5", ".", "0", ".", "0", ".", "0", " ",
    "|">>

\* "ci-info: | eth0 | True | 10.0.0.8 | 255.0.0.0 |"
Addr8 == <<"c", "i", "-", "i", "n", "f", "o", ":", " ", "|", " ", "e", "t",
    "h", "0", " ", "|", " ", "T", "r", "u", "e", " ", "|", " ", "1", "0",
    ".", "0", ".", "0", ".", "8", " ", "|", " ", "2", "5", "5", ".", "0",
    ".", "0", ".", "0", " ", "|">>

\* "ci-info: | eth0 | True | fe80::1/64 | . |"
Addr6 == <<"c", "i", "-", "i", "n", "f", "o", ":", " ", "|", " ", "e", "t",
    "h", "0", " ", "|", " ", "T", "r", "u", "e", " ", "|", " ", "f", "e",
    "8", "0", ":", ":", "1", "/", "6", "4", " ", "|", " ", ".", " ", "|">>

\* "ci-info: | eth0 | True |  fe80::1/64  | . |"
Addr6Pad == <<"c", "i", "-", "i", "n", "f", "o", ":", " ", "|", " ", "e",
    "t", "h", "0", " ", "|", " ", "T", "r", "u", "e", " ", "|", " ", " ",
    "f", "e", "8", "0", ":", ":", "1", "/", "6", "4", " ", " ", "|", " ",
    ".", " ", "|">>

\* "ci-info: | eth1 | True | 10.0.0.6 | 255.0.0.0 |"
AddrEth1 == <<"c", "i", "-", "i", "n", "f", "o", ":", " ", "|", " ", "e",
    "t", "h", "1", " ", "|", " ", "T", "r", "u", "e", " ", "|", " ", "1",
    "0", ".", "0", ".", "0", ".", "6", " ", "|", " ", "2", "5", "5", ".",
    "0", ".", "0", ".", "0", " ", "|">>

\* "ci-info: | eth0 | False | 10.0.0.7 | 255.0.0.0 |"
AddrDown == <<"c", "i", "-", "i", "n", "f", "o", ":", " ", "|", " ", "e",
    "t", "h", "0", " ", "|", " ", "F", "a", "l", "s", "e", " ", "|", " ",
    "1", "0", ".", "0", ".", "0", ".", "7", " ", "|", " ", "2", "5", "5",
    ".", "0", ".", "0", ".", "0", " ", "|">>

\* "256 SHA256:abcd1234 root@myhost (ED25519)"
HashEd == <<"2", "5", "6", " ", "S", "H", "A", "2", "5", "6", ":", "a",
    "b", "c", "d", "1", "2", "3", "4", " ", "r", "o", "o", "t", "@", "m",
    "y", "h", "o", "s", "t", " ", "(", "E", "D", "2", "5", "5", "1", "9",
    ")">>

\* "3072 SHA256:x+/Z root@a (RSA)"
HashRsa == <<"3", "0", "7", "2", " ", "S", "H", "A", "2", "5", "6", ":",
    "x", "+", "/", "Z", " ", "r", "o", "o", "t", "@", "a", " ", "(", "R",
    "S", "A", ")">>

\* "256 MD5:abcd root@a (DSA)"
HashMd5 == <<"2", "5", "6", " ", "M", "D", "5", ":", "a", "b", "c", "d",
    " ", "r", "o", "o", "t", "@", "a", " ", "(", "D", "S", "A", ")">>

\* "ssh-rsa 2048 SHA256:qq root@e (RSA)"
HashKey == <<"s", "s", "h", "-", "r", "s", "a", " ", "2", "0", "4", "8",
    " ", "S", "H", "A", "2", "5", "6", ":", "q", "q", " ", "r", "o", "o",
    "t", "@", "e", " ", "(", "R", "S", "A", ")">>

\* "ci-info: ++Authorized keys for user u++"
UserU == <<"c", "i", "-", "i", "n", "f", "o", ":", " ", "+", "+", "A", "u",
    "t", "h", "o", "r", "i", "z", "e", "d", " ", "k", "e", "y", "s", " ",
    "f", "o", "r", " ", "u", "s", "e", "r", " ", "u", "+", "+">>

\* "ci-info: ++Authorized keys for user v++"
UserV == <<"c", "i", "-", "i", "n", "f", "o", ":", " ", "+", "+", "A", "u",
    "t", "h", "o", "r", "i", "z", "e", "d", " ", "k", "e", "y", "s", " ",
    "f", "o", "r", " ", "u", "s", "e", "r", " ", "v", "+", "+">>

\* "ci-info: +---------+"
Border == <<"c", "i", "-", "i", "n", "f", "o", ":", " ", "+", "-", "-",
    "-", "-", "-", "-", "-", "-", "-", "+">>

\* "ci-info: | Keytype | Fingerprint | Options | Comment |"
Header == <<"c", "i", "-", "i", "n", "f", "o", ":", " ", "|", " ", "K",
    "e", "y", "t", "y", "p", "e", " ", "|", " ", "F", "i", "n", "g", "e",
    "r", "p", "r", "i", "n", "t", " ", "|", " ", "O", "p", "t", "i", "o",
    "n", "s", " ", "|", " ", "C", "o", "m", "m", "e", "n", "t", " ", "|">>

\* "ci-info: | ssh-rsa | 0f:f4 | - | c1 |"
RowRsa == <<"c", "i", "-", "i", "n", "f", "o", ":", " ", "|", " ", "s",
    "s", "h", "-", "r", "s", "a", " ", "|", " ", "0", "f", ":", "f", "4",
    " ", "|", " ", "-", " ", "|", " ", "c", "1", " ", "|">>

\* "ci-info: | ecdsa-x | be:0c |  no-pty  | c 2 |"
RowEcdsa == <<"c", "i", "-", "i", "n", "f", "o", ":", " ", "|", " ", "e",
    "c", "d", "s", "a", "-", "x", " ", "|", " ", "b", "e", ":", "0", "c",
    " ", "|", " ", " ", "n", "o", "-", "p", "t", "y", " ", " ", "|", " ",
    "c", " ", "2", " ", "|">>
HostFixture == {LoginA, LoginB, BeginLine, EndLine, KeyC, KeyD, KeyNoHost, Hello}

NetFixture == {Addr5, Addr5Pad, Addr8, Addr6, AddrEth1, AddrDown, BeginLine, UserU}

HashFixture == {HashEd, HashRsa, HashMd5, HashKey, BeginLine, EndLine, UserU, Hello}

AuthFixture == {UserU, UserV, Border, Header, RowRsa, RowEcdsa, BeginLine, Hello}

MixedFixture == {LoginA, BeginLine, KeyC, EndLine, Addr5, HashEd, UserU, RowRsa}

\* bufio.MaxScanTokenSize = 64 * 1024: the size the scanner's buffer grows to.
MaxScanTokenSize == 65536

\* A line of MaxScanTokenSize characters.
LongLine == [i \in 1..MaxScanTokenSize |-> "x"]

\* An over-long line among lines of three sub-formats.
LongFixture == {LongLine, LoginA, Addr5, HashEd}

\* Marker and row pairs only, for transcripts with several key tables.
PairFixture == {UserU, UserV, RowRsa, RowEcdsa}

\* "x c login:": text before the token
LoginPre == <<"x", " ", "c", " ", "l", "o", "g", "i", "n", ":">>

\* "a login: x": text after the prompt
LoginTail == <<"a", " ", "l", "o", "g", "i", "n", ":", " ", "x">>

\* "d<TAB>login:<TAB>": tabs as white space
LoginTab == <<"d", "\t", "l", "o", "g", "i", "n", ":", "\t">>

\* Login prompts with text before and after them, and a key block.
LoginFixture == {LoginA, LoginPre, LoginTail, LoginTab, BeginLine, KeyC}

\* "ssh-x -----BEGIN SSH HOST KEY KEYS-----": a BEGIN delimiter that starts like a key
KeyBegin == <<"s", "s", "h", "-", "x", " ", "-", "-", "-", "-", "-", "B",
    "E", "G", "I", "N", " ", "S", "S", "H", " ", "H", "O", "S", "T", " ",
    "K", "E", "Y", " ", "K", "E", "Y", "S", "-", "-", "-", "-", "-">>

\* "ssh-x -----END SSH HOST KEY KEYS-----": an END delimiter that starts like a key
KeyEnd == <<"s", "s", "h", "-", "x", " ", "-", "-", "-", "-", "-", "E",
    "N", "D", " ", "S", "S", "H", " ", "H", "O", "S", "T", " ", "K", "E",
    "Y", " ", "K", "E", "Y", "S", "-", "-", "-", "-", "-">>

\* "-----END SSH HOST KEY KEYS----------BEGIN SSH HOST KEY KEYS-----": both markers on one line
EndBegin == <<"-", "-", "-", "-", "-", "E", "N", "D", " ", "S", "S", "H",
    " ", "H", "O", "S", "T", " ", "K", "E", "Y", " ", "K", "E", "Y", "S",
    "-", "-", "-", "-", "-", "-", "-", "-", "-", "-", "B", "E", "G", "I",
    "N", " ", "S", "S", "H", " ", "H", "O", "S", "T", " ", "K", "E", "Y",
    " ", "K", "E", "Y", "S", "-", "-", "-", "-", "-">>

\* Delimiters of every kind around a key line.
BlockFixture == {BeginLine, EndLine, KeyC, KeyBegin, KeyEnd, EndBegin, Hello}

\* Lines whose effect depends on the lines before them, for calls that run
\* side by side.
CallFixture == {BeginLine, KeyC, UserU, RowRsa, HashEd}

\* An IPv4 address row on a BEGIN delimiter:
\* "| eth0 | True | 1.2.3.4 |-----BEGIN SSH HOST KEY KEYS-----"
BeginAddr == <<"|", " ", "e", "t", "h", "0", " ", "|", " ", "T", "r", "u",
    "e", " ", "|", " ", "1", ".", "2", ".", "3", ".", "4", " ", "|", "-",
    "-", "-", "-", "-", "B", "E", "G", "I", "N", " ", "S", "S", "H", " ",
    "H", "O", "S", "T", " ", "K", "E", "Y", " ", "K", "E", "Y", "S", "-",
    "-", "-", "-", "-">>

\* A fingerprint on an END delimiter:
\* "1 SHA256:a root@h (R) -----END SSH HOST KEY KEYS-----"
EndHash == <<"1", " ", "S", "H", "A", "2", "5", "6", ":", "a", " ", "r",
    "o", "o", "t", "@", "h", " ", "(", "R", ")", " ", "-", "-", "-", "-",
    "-", "E", "N", "D", " ", "S", "S", "H", " ", "H", "O", "S", "T", " ",
    "K", "E", "Y", " ", "K", "E", "Y", "S", "-", "-", "-", "-", "-">>

\* A user marker that ends as a login prompt:
\* "ci-info: ++for user u++ m login:"
MarkerLogin == <<"c", "i", "-", "i", "n", "f", "o", ":", " ", "+", "+",
    "f", "o", "r", " ", "u", "s", "e", "r", " ", "u", "+", "+", " ", "m",
    " ", "l", "o", "g", "i", "n", ":">>

\* A table border with an IPv6 address row:
\* "ci-info: +| eth0 | True | ::2/64 |"
BorderAddr == <<"c", "i", "-", "i", "n", "f", "o", ":", " ", "+", "|", " ",
    "e", "t", "h", "0", " ", "|", " ", "T", "r", "u", "e", " ", "|", " ",
    ":", ":", "2", "/", "6", "4", " ", "|">>

\* A key row that ends as a login prompt:
\* "ci-info: | ssh-rsa | f | - | c | m login:"
RowLogin == <<"c", "i", "-", "i", "n", "f", "o", ":", " ", "|", " ", "s",
    "s", "h", "-", "r", "s", "a", " ", "|", " ", "f", " ", "|", " ", "-",
    " ", "|", " ", "c", " ", "|", " ", "m", " ", "l", "o", "g", "i", "n",
    ":">>

\* Lines that satisfy several rules at once.
OverlapFixture == {BeginAddr, EndHash, MarkerLogin, BorderAddr, RowLogin}

\* "ci-info: | ssh-rsa | 0f:f4 | c1 |": a row of three columns
Row3 == <<"c", "i", "-", "i", "n", "f", "o", ":", " ", "|", " ", "s", "s",
    "h", "-", "r", "s", "a", " ", "|", " ", "0", "f", ":", "f", "4", " ",
    "|", " ", "c", "1", " ", "|">>

\* "ci-info: | ssh-rsa | 0f:f4 | - | c1 | x |": a row of five columns
Row5 == <<"c", "i", "-", "i", "n", "f", "o", ":", " ", "|", " ", "s", "s",
    "h", "-", "r", "s", "a", " ", "|", " ", "0", "f", ":", "f", "4", " ",
    "|", " ", "-", " ", "|", " ", "c", "1", " ", "|", " ", "x", " ", "|">>

\* A blank fingerprint column and a vertical tab before the comment:
\* "ci-info: | ssh-rsa |   | - | <VT>c |"
RowBlank == <<"c", "i", "-", "i", "n", "f", "o", ":", " ", "|", " ", "s",
    "s", "h", "-", "r", "s", "a", " ", "|", " ", " ", " ", "|", " ", "-",
    " ", "|", " ", "<VT>", "c", " ", "|">>

\* Key rows of three, four and five columns after a marker line.
ColumnFixture == {UserU, Row3, Row5, RowRsa, RowBlank}

\* A login token holding a vertical tab: "a<VT>b login:"
LoginVT == <<"a", "<VT>", "b", " ", "l", "o", "g", "i", "n", ":">>

\* No token in front of the prompt: " login:"
LoginBare == <<" ", "l", "o", "g", "i", "n", ":">>

\* A user name holding a vertical tab: "ci-info: ++for user u<VT>v++"
MarkerVT == <<"c", "i", "-", "i", "n", "f", "o", ":", " ", "+", "+", "f",
    "o", "r", " ", "u", "s", "e", "r", " ", "u", "<VT>", "v", "+", "+">>

\* No user name in the marker: "ci-info: ++for user ++"
MarkerBare == <<"c", "i", "-", "i", "n", "f", "o", ":", " ", "+", "+", "f",
    "o", "r", " ", "u", "s", "e", "r", " ", "+", "+">>

\* Login prompts and marker lines with unusual or missing tokens.
SentinelFixture == {LoginVT, LoginBare, MarkerVT, MarkerBare, RowRsa}

PadFixture == {Addr5, Addr5Pad, Addr6, Addr6Pad}

Fixtures == {HostFixture, NetFixture, HashFixture, AuthFixture, MixedFixture, PairFixture,
             LongFixture, LoginFixture, BlockFixture, CallFixture,
             OverlapFixture, ColumnFixture, PadFixture, SentinelFixture}

\* The longest transcript scanned, in lines.
MaxLines == 4

\* The longest transcript drawn from PairFixture, in lines.
MaxPairLines == 6

LineBudget(f) == IF f = PairFixture THEN MaxPairLines ELSE MaxLines

\* The most lines that follow an over-long line in the buffer.
MaxUnread == 1

(***************************************************************************)
(* bufio.Scanner with the default split function bufio.ScanLines: a token  *)
(* is the text up to the next newline, without one trailing carriage       *)
(* return.  The buffer grows up to MaxScanTokenSize bytes; when it is full *)
(* and holds no newline, Scan gives up with ErrTooLong and returns false.  *)
(***************************************************************************)
FitsBuffer(raw) == Len(raw) < MaxScanTokenSize

dropCR(raw) ==
    IF raw # <<>> /\ raw[Len(raw)] = "\r" THEN SubSeq(raw, 1, Len(raw) - 1) ELSE raw

ScannerLines == {dropCR(raw) : raw \in {r \in UNION Fixtures : FitsBuffer(r)}}

\* What the regexp and strings calls of the loop body return for one line.
LineCalls(line) ==
    [hostname |-> FindStringSubmatch(hostnameRegex, line, 1),
     ipv4     |-> FindStringSubmatch(ipv4Regex, line, 1),
     ipv6     |-> FindStringSubmatch(ipv6Regex, line, 1),
     hash     |-> FindStringSubmatch(hashRegex, line, 4),
     begin    |-> StringsContains(line, BeginHostKeys),
     end      |-> StringsContains(line, EndHostKeys),
     trimmed  |-> TrimSpace(line),
     sshKey   |-> FindStringSubmatch(sshKeyRegex, TrimSpace(line), 2),
     authUser |-> FindStringSubmatch(authKeyUser, line, 1),
     border   |-> HasPrefix(line, StrCiInfoBorder),
     authRow  |-> FindStringSubmatch(authKeyRow, line, 4)]

\* The same, evaluated once for every line the scanner can deliver.
Calls == [line \in ScannerLines |-> LineCalls(line)]

(***************************************************************************)
(* The loop body of ParseCloudInit, one operator per extraction rule.  An  *)
(* operator takes the values the rule reads and what its regexp or strings *)
(* call returned for the line, and gives the value the rule leaves.        *)
(***************************************************************************)
\* func contains(slice []string, item string) bool
contains(slice, item) == \E i \in 1..Len(slice) : slice[i] = item

\* Mutant: a later login prompt replaces the hostname.
LoginHostnameUnguarded(hostname, matches) ==
    IF matches.ok THEN matches.grp[1] ELSE hostname

\* "Extract hostname from login prompt"
LoginHostname(hostname, matches) ==
    IF hostname = <<>> /\ matches.ok THEN matches.grp[1] ELSE hostname

\* Mutant: the address is appended without the contains test.
AppendIPNoDedup(ips, matches) ==
    IF matches.ok THEN Append(ips, matches.grp[1]) ELSE ips

\* "Extract IPv4 addresses", "Extract IPv6 addresses": the same statements
\* on the matches of ipv4Regex and of ipv6Regex.
AppendIP(ips, matches) ==
    IF matches.ok /\ ~contains(ips, matches.grp[1])
    THEN Append(ips, matches.grp[1])
    ELSE ips

\* Mutant: the host and key type captures are stored in each other's field.
HostKeyHashSwapped(matches) ==
    [KeyType     |-> matches.grp[3],
     Fingerprint |-> matches.grp[2],
     Hostname    |-> matches.grp[4],
     Algorithm   |-> matches.grp[1] \o StrBits]

\* The HostKeyHash literal built from a hashRegex match.
HostKeyHash(matches) ==
    [KeyType     |-> matches.grp[4],
     Fingerprint |-> matches.grp[2],
     Hostname    |-> matches.grp[3],
     Algorithm   |-> matches.grp[1] \o StrBits]

\* Mutant: fingerprints are deduplicated like addresses.
AppendHashDedup(hashes, matches) ==
    IF matches.ok /\ ~contains(hashes, HostKeyHash(matches))
    THEN Append(hashes, HostKeyHash(matches))
    ELSE hashes

\* Mutant: the new fingerprint is put in front of the list.
AppendHashInFront(hashes, matches) ==
    IF matches.ok THEN <<HostKeyHash(matches)>> \o hashes ELSE hashes

\* "Extract host key fingerprints"
AppendHash(hashes, matches) ==
    IF matches.ok THEN Append(hashes, HostKeyHash(matches)) ELSE hashes

\* The two delimiter tests, each followed by `continue`; c is Calls[line].
IsBeginHostKeys(c) == c.begin

IsEndHostKeys(c) == ~c.begin /\ c.end

\* Mutant: a BEGIN line met inside the block closes it.
NextInHostKeysToggle(in, c) ==
    IF IsBeginHostKeys(c) THEN ~in
    ELSE IF IsEndHostKeys(c) THEN FALSE
    ELSE in

\* inHostKeys after the line.
NextInHostKeys(in, c) ==
    IF IsBeginHostKeys(c) THEN TRUE
    ELSE IF IsEndHostKeys(c) THEN FALSE
    ELSE in

\* strings.HasPrefix(trimmed, "ssh-") || strings.HasPrefix(trimmed, "ecdsa-")
IsKeyText(trimmed) == HasPrefix(trimmed, StrSsh) \/ HasPrefix(trimmed, StrEcdsa)

\* Mutant: key lines are captured outside the block too.
AppendHostKeyAnywhere(keys, in, line, trimmed) ==
    IF IsKeyText(trimmed) THEN Append(keys, trimmed) ELSE keys

\* Mutant: the line is stored as scanned, not trimmed.
AppendHostKeyUntrimmed(keys, in, line, trimmed) ==
    IF in /\ IsKeyText(trimmed) THEN Append(keys, line) ELSE keys

\* Mutant: inside the block every line is stored, key or not.
AppendHostKeyAnyLine(keys, in, line, trimmed) ==
    IF in THEN Append(keys, trimmed) ELSE keys

\* data.HostKeys after a line that is not a delimiter.
AppendHostKey(keys, in, line, trimmed) ==
    IF in /\ IsKeyText(trimmed) THEN Append(keys, trimmed) ELSE keys

\* Mutant: the key line overwrites a hostname that is already set.
KeyHostnameUnguarded(hostname, in, trimmed, matches) ==
    IF in /\ IsKeyText(trimmed) /\ matches.ok THEN matches.grp[2] ELSE hostname

\* Mutant: the key type group is taken for the hostname group.
KeyHostnameWrongGroup(hostname, in, trimmed, matches) ==
    IF in /\ IsKeyText(trimmed) /\ hostname = <<>> /\ matches.ok
    THEN matches.grp[1]
    ELSE hostname

\* Mutant: the hostname is taken from a key line outside the block too.
KeyHostnameOutsideBlock(hostname, in, trimmed, matches) ==
    IF IsKeyText(trimmed) /\ hostname = <<>> /\ matches.ok
    THEN matches.grp[2]
    ELSE hostname

\* "Extract hostname from key if we don't have it yet"; matches is what
\* sshKeyRegex finds in the trimmed line.
KeyHostname(hostname, in, trimmed, matches) ==
    IF in /\ IsKeyText(trimmed) /\ hostname = <<>> /\ matches.ok
    THEN matches.grp[2]
    ELSE hostname

\* Mutant: the placeholder is stored as it is.
NormalizeOptionsKeepDash(options) == options

\* if options == "-" { options = "" }
NormalizeOptions(options) == IF options = StrDash THEN <<>> ELSE options

\* Mutant: the captured columns are stored as captured, without TrimSpace.
SSHKeyEntryUntrimmed(matches) ==
    [Keytype     |-> matches.grp[1],
     FingerPrint |-> matches.grp[2],
     Options     |-> NormalizeOptions(matches.grp[3]),
     Comment     |-> matches.grp[4]]

\* The SSHKeyData literal built from an authKeyRow match.
SSHKeyEntry(matches) ==
    [Keytype     |-> TrimSpace(matches.grp[1]),
     FingerPrint |-> TrimSpace(matches.grp[2]),
     Options     |-> NormalizeOptions(TrimSpace(matches.grp[3])),
     Comment     |-> TrimSpace(matches.grp[4])]

\* Mutant: a row commits although no user is pending.
CommitsRowUnarmed(user, c) ==
    /\ ~c.border
    /\ c.authRow.ok
    /\ IsKeyText(TrimSpace(c.authRow.grp[1]))

\* The row of a line commits an entry: a user is pending, the line is not a
\* border, it has the row shape and its first column is a key type.
CommitsRow(user, c) ==
    /\ user # <<>>
    /\ ~c.border
    /\ c.authRow.ok
    /\ IsKeyText(TrimSpace(c.authRow.grp[1]))

\* Mutant: an entry the user already has is kept.
StoreSSHKeyDataKeepFirst(map, user, entry) ==
    IF user \in DOMAIN map THEN map
    ELSE [u \in DOMAIN map \cup {user} |-> IF u = user THEN entry ELSE map[u]]

\* data.SSHKeyData[currentAuthUser] = SSHKeyData{...}
StoreSSHKeyData(map, user, entry) ==
    [u \in DOMAIN map \cup {user} |-> IF u = user THEN entry ELSE map[u]]

(***************************************************************************)
(* State.                                                                  *)
(***************************************************************************)
VARIABLES
    fixture,          \* the fixture the transcript is drawn from
    scanned,          \* the lines scanner.Text() has returned so far
    data,             \* the CloudInitData under construction
    inHostKeys,       \* inside a BEGIN/END host key block
    currentAuthUser,  \* the user whose authorized-key row is awaited, or ""
    pc,               \* "scan": in the loop; "done": data has been returned
    unread,           \* the lines of the buffer the scanner has given up on
    content,          \* the buffer that several calls are given
    call,             \* those calls: position, local variables and result
    wait              \* a call of WaitOnManyTasks: main, goroutines, errCh, wg

vars == <<fixture, scanned, data, inHostKeys, currentAuthUser, pc, unread,
          content, call, wait>>

\* The variables of the parser.
parseVars == <<fixture, scanned, data, inHostKeys, currentAuthUser, pc, unread,
               content, call>>

\* A call of WaitOnManyTasks on n tasks, at its first statement.  An error
\* is written as the one-element sequence of the task it comes from, nil as
\* the empty sequence.
NewWait(n) ==
    [tasks  |-> n,
     pc     |-> "start",
     cap    |-> 0,
     errCh  |-> <<>>,
     closed |-> FALSE,
     wg     |-> 0,
     waiter |-> [i \in 1..n |-> "none"],
     err    |-> [i \in 1..n |-> <<>>],
     ret    |-> [returned |-> FALSE, err |-> <<>>]]

\* No call of WaitOnManyTasks is under way.
IdleWait == [NewWait(0) EXCEPT !.pc = "idle"]

Init ==
    /\ fixture \in Fixtures
    /\ scanned = <<>>
    /\ data = [Hostname |-> <<>>, IPs |-> <<>>, HostKeyHashes |-> <<>>,
               HostKeys |-> <<>>, SSHKeyData |-> <<>>]
    /\ inHostKeys = FALSE
    /\ currentAuthUser = <<>>
    /\ pc = "scan"
    /\ unread = <<>>
    /\ content = <<>>
    /\ call = <<>>
    /\ wait = IdleWait

\* data after the four rules that are applied to every line.
AfterLineRules(d, c) ==
    [d EXCEPT !.Hostname      = LoginHostname(d.Hostname, c.hostname),
              !.IPs           = AppendIP(AppendIP(d.IPs, c.ipv4), c.ipv6),
              !.HostKeyHashes = AppendHash(d.HostKeyHashes, c.hash)]

\* data after the host key block rule, for a line that is no delimiter.
AfterKeyRule(d, in, line, c) ==
    [d EXCEPT !.HostKeys = AppendHostKey(d.HostKeys, in, line, c.trimmed),
              !.Hostname = KeyHostname(d.Hostname, in, c.trimmed, c.sshKey)]

\* Mutant: the delimiter tests come first and skip the whole loop body.
NextDataDelimiterFirst(d, in, user, line, c) ==
    IF IsBeginHostKeys(c) \/ IsEndHostKeys(c)
    THEN d
    ELSE IF ~c.authUser.ok /\ CommitsRow(user, c)
    THEN [AfterKeyRule(AfterLineRules(d, c), in, line, c)
             EXCEPT !.SSHKeyData =
                 StoreSSHKeyData(d.SSHKeyData, user, SSHKeyEntry(c.authRow))]
    ELSE AfterKeyRule(AfterLineRules(d, c), in, line, c)

\* data after the loop body has run on a line up to its first `continue`.
NextData(d, in, user, line, c) ==
    IF IsBeginHostKeys(c) \/ IsEndHostKeys(c)
    THEN AfterLineRules(d, c)
    ELSE IF ~c.authUser.ok /\ CommitsRow(user, c)
    THEN [AfterKeyRule(AfterLineRules(d, c), in, line, c)
             EXCEPT !.SSHKeyData =
                 StoreSSHKeyData(d.SSHKeyData, user, SSHKeyEntry(c.authRow))]
    ELSE AfterKeyRule(AfterLineRules(d, c), in, line, c)

\* Mutant: a marker line does not replace a user that is still pending.
NextAuthUserKeepPending(user, c) ==
    IF IsBeginHostKeys(c) \/ IsEndHostKeys(c) THEN user
    ELSE IF c.authUser.ok THEN (IF user # <<>> THEN user ELSE c.authUser.grp[1])
    ELSE IF CommitsRow(user, c) THEN <<>>
    ELSE user

\* Mutant: committing a row leaves the user pending.
NextAuthUserNoDisarm(user, c) ==
    IF IsBeginHostKeys(c) \/ IsEndHostKeys(c) THEN user
    ELSE IF c.authUser.ok THEN c.authUser.grp[1]
    ELSE user

\* Mutant: a border line ends the wait for a row.
NextAuthUserBorderDisarms(user, c) ==
    IF IsBeginHostKeys(c) \/ IsEndHostKeys(c) THEN user
    ELSE IF c.authUser.ok THEN c.authUser.grp[1]
    ELSE IF c.border \/ CommitsRow(user, c) THEN <<>>
    ELSE user

\* currentAuthUser after the loop body: a delimiter line continues before the
\* authorized-key rules, a marker line sets the user, a committed row clears it.
NextAuthUser(user, c) ==
    IF IsBeginHostKeys(c) \/ IsEndHostKeys(c) THEN user
    ELSE IF c.authUser.ok THEN c.authUser.grp[1]
    ELSE IF CommitsRow(user, c) THEN <<>>
    ELSE user

\* One iteration of `for scanner.Scan()`: the scanner delivers the next line
\* and the loop body runs on it up to its first `continue`; c is Calls[line].
ScanLine(line, c) ==
    /\ pc = "scan"
    /\ Len(scanned) < LineBudget(fixture)
    /\ scanned' = Append(scanned, line)
    /\ data' = NextData(data, inHostKeys, currentAuthUser, line, c)
    /\ inHostKeys' = NextInHostKeys(inHostKeys, c)
    /\ currentAuthUser' = NextAuthUser(currentAuthUser, c)
    /\ UNCHANGED <<fixture, pc, unread, content, call, wait>>

\* scanner.Scan() returns true with the next line of the buffer.
Scan(raw) == FitsBuffer(raw) /\ ScanLine(dropCR(raw), Calls[dropCR(raw)])

\* scanner.Scan() returns false at the end of the buffer; `return data`.
ScanEnd ==
    /\ pc = "scan"
    /\ pc' = "done"
    /\ UNCHANGED <<fixture, scanned, data, inHostKeys, currentAuthUser, unread,
                   content, call, wait>>

\* The lines that may follow in the buffer.
Rests(f) == UNION {[1..n -> f] : n \in 0..MaxUnread}

\* scanner.Scan() returns false on a line that does not fit the buffer; the
\* error is not looked at, the loop ends and `return data` runs while the
\* line and the rest of the buffer are unread.
ScanTooLong(raw, rest) ==
    /\ pc = "scan"
    /\ Len(scanned) < LineBudget(fixture)
    /\ ~FitsBuffer(raw)
    /\ pc' = "done"
    /\ unread' = <<raw>> \o rest
    /\ UNCHANGED <<fixture, scanned, data, inHostKeys, currentAuthUser, content,
                   call, wait>>

Next ==
    \/ \E raw \in fixture : Scan(raw)
    \/ ScanEnd
    \/ \E raw \in fixture : \E rest \in Rests(fixture) : ScanTooLong(raw, rest)

Spec == Init /\ [][Next]_vars

\* The loop runs to the end of the buffer.
FairSpec == Spec /\ WF_vars(Next)

(***************************************************************************)
(* Several calls of ParseCloudInit on one buffer, interleaved line by line. *)
(***************************************************************************)
\* The number of calls.
NumCalls == 2

\* The longest buffer the calls are given, in lines.
MaxContent == 3

\* data, inHostKeys and currentAuthUser as the function declares them.
NewLocals ==
    [data            |-> [Hostname |-> <<>>, IPs |-> <<>>, HostKeyHashes |-> <<>>,
                          HostKeys |-> <<>>, SSHKeyData |-> <<>>],
     inHostKeys      |-> FALSE,
     currentAuthUser |-> <<>>]

\* A call that has not been made yet.
IdleCall == [pc |-> "idle", pos |-> 0, locals |-> NewLocals, result |-> NewLocals.data]

\* The local variables after one iteration of the loop on a line.
LineStep(st, line, c) ==
    [data            |-> NextData(st.data, st.inHostKeys, st.currentAuthUser, line, c),
     inHostKeys      |-> NextInHostKeys(st.inHostKeys, c),
     currentAuthUser |-> NextAuthUser(st.currentAuthUser, c)]

\* Mutant: the variables are package-level, one copy for all calls.
LocalsOfShared(i) == 1

\* Where call i keeps data, inHostKeys and currentAuthUser: they are
\* declared with := inside the function, one copy per call.
LocalsOf(i) == i

CallsInit ==
    /\ fixture = CallFixture
    /\ scanned = <<>>
    /\ data = NewLocals.data
    /\ inHostKeys = FALSE
    /\ currentAuthUser = <<>>
    /\ pc = "scan"
    /\ unread = <<>>
    /\ content \in UNION {[1..n -> CallFixture] : n \in 0..MaxContent}
    /\ call = [i \in 1..NumCalls |-> IdleCall]
    /\ wait = IdleWait

\* ParseCloudInit(content) is entered: the declarations before the loop.
CallBegin(i) ==
    /\ call[i].pc = "idle"
    /\ call' = [call EXCEPT ![i].pc = "scan",
                            ![LocalsOf(i)].locals = NewLocals]
    /\ UNCHANGED <<fixture, scanned, data, inHostKeys, currentAuthUser, pc, unread,
                   content, wait>>

\* One iteration of the loop of call i; c is Calls[line].
CallScanLine(i, line, c) ==
    /\ call[i].pc = "scan"
    /\ call[i].pos < Len(content)
    /\ call' = [call EXCEPT ![i].pos = @ + 1,
                            ![LocalsOf(i)].locals = LineStep(@, line, c)]
    /\ UNCHANGED <<fixture, scanned, data, inHostKeys, currentAuthUser, pc, unread,
                   content, wait>>

CallScan(i, raw) == CallScanLine(i, dropCR(raw), Calls[dropCR(raw)])

\* The buffer of call i is at its end; `return data`.
CallReturn(i) ==
    /\ call[i].pc = "scan"
    /\ call[i].pos = Len(content)
    /\ call' = [call EXCEPT ![i].pc = "done",
                            ![i].result = call[LocalsOf(i)].locals.data]
    /\ UNCHANGED <<fixture, scanned, data, inHostKeys, currentAuthUser, pc, unread,
                   content, wait>>

CallsNext ==
    \E i \in 1..NumCalls :
        \/ CallBegin(i)
        \/ call[i].pos < Len(content) /\ CallScan(i, content[call[i].pos + 1])
        \/ CallReturn(i)

CallsSpec == CallsInit /\ [][CallsNext]_vars

(***************************************************************************)
(* WaitOnManyTasks: the calling goroutine ("main" below) and one waiter    *)
(* goroutine per task.  task.Wait belongs to the proxmox library: its      *)
(* outcome, nil or an error, is chosen when it returns.                    *)
(***************************************************************************)
\* The most tasks in one call.
MaxTasks == 3

\* Mutant: make(chan error), a channel without buffer.
ErrChUnbuffered(n) == 0

\* errCh := make(chan error, len(tasks))
ErrChCapacity(n) == n

WaitInit ==
    /\ fixture = CallFixture
    /\ scanned = <<>>
    /\ data = NewLocals.data
    /\ inHostKeys = FALSE
    /\ currentAuthUser = <<>>
    /\ pc = "scan"
    /\ unread = <<>>
    /\ content = <<>>
    /\ call = <<>>
    /\ wait \in {NewWait(n) : n \in 0..MaxTasks}

\* if len(tasks) == 0 { return nil }
WaitEmpty ==
    /\ wait.pc = "start"
    /\ wait.tasks = 0
    /\ wait' = [wait EXCEPT !.pc = "done",
                            !.ret = [returned |-> TRUE, err |-> <<>>]]
    /\ UNCHANGED parseVars

\* errCh := make(chan error, len(tasks)); wg.Add(len(tasks))
WaitMake ==
    /\ wait.pc = "start"
    /\ wait.tasks > 0
    /\ wait' = [wait EXCEPT !.pc = "spawn",
                            !.cap = ErrChCapacity(wait.tasks),
                            !.wg = wait.tasks]
    /\ UNCHANGED parseVars

\* The tasks whose goroutine has been started.
Started == {j \in 1..wait.tasks : wait.waiter[j] # "none"}

\* One iteration of `for _, task := range tasks`: `go func() {...}()` for
\* task i, the next of the slice; after the last one main goes on to wg.Wait.
WaitGo(i) ==
    /\ wait.pc = "spawn"
    /\ i = Cardinality(Started) + 1
    /\ wait' = [wait EXCEPT !.waiter[i] = "wait",
                            !.pc = IF i = wait.tasks THEN "wgwait" ELSE "spawn"]
    /\ UNCHANGED parseVars

\* task.Wait(ctx, pollInterval, timeout) returns in the goroutine of task i,
\* with an error when failed and with nil otherwise.
TaskWait(i, failed) ==
    /\ wait.waiter[i] = "wait"
    /\ wait' = [wait EXCEPT !.err[i] = IF failed THEN <<i>> ELSE <<>>,
                            !.waiter[i] = IF failed THEN "send" ELSE "exit"]
    /\ UNCHANGED parseVars

\* errCh <- err in the goroutine of task i: the send goes through when the
\* buffer has room; main receives only after close, so there is no other way.
SendErr(i) ==
    /\ wait.waiter[i] = "send"
    /\ Len(wait.errCh) < wait.cap
    /\ wait' = [wait EXCEPT !.errCh = Append(@, wait.err[i][1]),
                            !.waiter[i] = "exit"]
    /\ UNCHANGED parseVars

\* defer wg.Done() as the goroutine of task i returns.
WaiterDone(i) ==
    /\ wait.waiter[i] = "exit"
    /\ wait' = [wait EXCEPT !.wg = @ - 1, !.waiter[i] = "done"]
    /\ UNCHANGED parseVars

\* wg.Wait() returns when the counter is zero.
WgWait ==
    /\ wait.pc = "wgwait"
    /\ wait.wg = 0
    /\ wait' = [wait EXCEPT !.pc = "close"]
    /\ UNCHANGED parseVars

\* close(errCh)
CloseErrCh ==
    /\ wait.pc = "close"
    /\ wait' = [wait EXCEPT !.pc = "recv", !.closed = TRUE]
    /\ UNCHANGED parseVars

\* if err, ok := <-errCh; ok { return err }: the first error of the buffer.
RecvErr ==
    /\ wait.pc = "recv"
    /\ wait.errCh # <<>>
    /\ wait' = [wait EXCEPT !.pc = "done",
                            !.errCh = Tail(@),
                            !.ret = [returned |-> TRUE, err |-> <<Head(wait.errCh)>>]]
    /\ UNCHANGED parseVars

\* The receive on the closed, empty channel gives ok = false; return nil.
RecvClosed ==
    /\ wait.pc = "recv"
    /\ wait.errCh = <<>>
    /\ wait.closed
    /\ wait' = [wait EXCEPT !.pc = "done",
                            !.ret = [returned |-> TRUE, err |-> <<>>]]
    /\ UNCHANGED parseVars

WaitNext ==
    \/ WaitEmpty
    \/ WaitMake
    \/ \E i \in 1..wait.tasks : WaitGo(i)
    \/ \E i \in 1..wait.tasks : \E failed \in BOOLEAN : TaskWait(i, failed)
    \/ \E i \in 1..wait.tasks : SendErr(i)
    \/ \E i \in 1..wait.tasks : WaiterDone(i)
    \/ WgWait
    \/ CloseErrCh
    \/ RecvErr
    \/ RecvClosed

WaitSpec == WaitInit /\ [][WaitNext]_vars

\* Every goroutine that can run does run, and every task.Wait returns.
WaitFairSpec == WaitSpec /\ WF_vars(WaitNext)

(***************************************************************************)
(* Properties.  They are stated over the lines scanned so far and what     *)
(* the regexp and strings calls return for them, not over the operators    *)
(* of the loop body.                                                       *)
(***************************************************************************)
IsLoginLine(l) == Calls[l].hostname.ok

IsDelimiter(l) == Calls[l].begin \/ Calls[l].end

\* Line i of h comes after a BEGIN delimiter with no END delimiter in between.
InsideBlock(h, i) ==
    \E j \in 1..(i - 1) :
        /\ Calls[h[j]].begin
        /\ \A k \in (j + 1)..(i - 1) : Calls[h[k]].begin \/ ~Calls[h[k]].end

\* Line i of h is stored as a raw host key: a key line inside the block.
IsBlockKeyLine(h, i) ==
    /\ InsideBlock(h, i)
    /\ ~IsDelimiter(h[i])
    /\ IsKeyText(Calls[h[i]].trimmed)

\* Line i of h is a key line "<keytype> <key-blob> root@<h>" inside the block.
IsBlockKeyHostLine(h, i) == IsBlockKeyLine(h, i) /\ Calls[h[i]].sshKey.ok

GivesHostname(h, i) == IsLoginLine(h[i]) \/ IsBlockKeyHostLine(h, i)

HostnameGiven(h, i) ==
    IF IsLoginLine(h[i]) THEN Calls[h[i]].hostname.grp[1] ELSE Calls[h[i]].sshKey.grp[2]

Least(S) == CHOOSE i \in S : \A j \in S : i <= j

\* C1: the hostname is the token of the earliest line that gives hostname
\* evidence (a login prompt, or a key line inside the host key block) and is
\* empty while there is none; no later line of either kind changes it.
C1_FirstHostnameWins ==
    LET evidence == {i \in 1..Len(scanned) : GivesHostname(scanned, i)}
    IN  data.Hostname = IF evidence = {} THEN <<>>
                        ELSE HostnameGiven(scanned, Least(evidence))

\* A login prompt followed by a key line of the block that names another
\* host; the login prompt's host is kept.
C1_Witness ==
    \E i, j \in 1..Len(scanned) :
        /\ i < j
        /\ IsLoginLine(scanned[i])
        /\ \A k \in 1..(i - 1) : ~GivesHostname(scanned, k)
        /\ IsBlockKeyHostLine(scanned, j)
        /\ Calls[scanned[j]].sshKey.grp[2] # Calls[scanned[i]].hostname.grp[1]
        /\ data.Hostname = Calls[scanned[i]].hostname.grp[1]

\* C2: when no scanned line is a login prompt and the block holds a key
\* line "<keytype> <key-blob> root@<h>", the returned hostname is the h of
\* the first such line.
C2_FallbackHostname ==
    LET keyed == {i \in 1..Len(scanned) : IsBlockKeyHostLine(scanned, i)}
    IN  (/\ pc = "done"
         /\ \A i \in 1..Len(scanned) : ~IsLoginLine(scanned[i])
         /\ keyed # {})
        => data.Hostname = Calls[scanned[Least(keyed)]].sshKey.grp[2]

\* A returned transcript without login prompt whose block, closed by an END
\* delimiter, holds two key lines naming different hosts.
C2_Witness ==
    /\ pc = "done"
    /\ \A i \in 1..Len(scanned) : ~IsLoginLine(scanned[i])
    /\ \E i, j, e \in 1..Len(scanned) :
        /\ i < j /\ j < e
        /\ IsBlockKeyHostLine(scanned, i)
        /\ IsBlockKeyHostLine(scanned, j)
        /\ Calls[scanned[i]].sshKey.grp[2] # Calls[scanned[j]].sshKey.grp[2]
        /\ Calls[scanned[e]].end /\ ~Calls[scanned[e]].begin
        /\ data.Hostname = Calls[scanned[i]].sshKey.grp[2]
        /\ data.Hostname # <<>>

\* The addresses an address-table row carries.
AddressesOf(l) ==
    (IF Calls[l].ipv4.ok THEN {Calls[l].ipv4.grp[1]} ELSE {})
    \cup (IF Calls[l].ipv6.ok THEN {Calls[l].ipv6.grp[1]} ELSE {})

FirstSeen(h, a) == Least({i \in 1..Len(h) : a \in AddressesOf(h[i])})

\* C3: the address list holds every address of the rows scanned exactly
\* once, in the order of the lines in which each was first seen.
C3_AddressesUniqueInOrder ==
    /\ {data.IPs[k] : k \in 1..Len(data.IPs)}
           = UNION {AddressesOf(scanned[i]) : i \in 1..Len(scanned)}
    /\ \A k, m \in 1..Len(data.IPs) :
           k < m => /\ data.IPs[k] # data.IPs[m]
                    /\ FirstSeen(scanned, data.IPs[k]) <= FirstSeen(scanned, data.IPs[m])

\* An IPv4 row, an IPv6 row and the IPv4 row again.
C3_Witness ==
    \E i, j, k \in 1..Len(scanned) :
        /\ i < j /\ j < k
        /\ Calls[scanned[i]].ipv4.ok
        /\ Calls[scanned[j]].ipv6.ok
        /\ AddressesOf(scanned[k]) = AddressesOf(scanned[i])
        /\ data.IPs = <<Calls[scanned[i]].ipv4.grp[1], Calls[scanned[j]].ipv6.grp[1]>>

\* The step scans one more line.
ScansLine == Len(scanned') = Len(scanned) + 1

NewLine == scanned'[Len(scanned')]

SeenBefore(l) == \E i \in 1..Len(scanned) : scanned[i] = l

IsAddressRow(l) == Calls[l].ipv4.ok \/ Calls[l].ipv6.ok

IsHashLine(l) == Calls[l].hash.ok

\* C4: a second copy of an address row leaves the address list unchanged,
\* whatever the scan mode; a second copy of a fingerprint line adds exactly
\* one fingerprint entry, equal to an entry already in the list.
C4_DuplicationPerField ==
    [][(ScansLine /\ SeenBefore(NewLine)) =>
          /\ IsAddressRow(NewLine) => data'.IPs = data.IPs
          /\ IsHashLine(NewLine) =>
                /\ Len(data'.HostKeyHashes) = Len(data.HostKeyHashes) + 1
                /\ SubSeq(data'.HostKeyHashes, 1, Len(data.HostKeyHashes)) = data.HostKeyHashes
                /\ \E k \in 1..Len(data.HostKeyHashes) :
                      data.HostKeyHashes[k] = data'.HostKeyHashes[Len(data'.HostKeyHashes)]
    ]_vars

\* An address row scanned twice and a fingerprint line scanned twice.
C4_Witness ==
    /\ \E i, j \in 1..Len(scanned) :
          /\ i < j
          /\ scanned[i] = scanned[j]
          /\ IsAddressRow(scanned[i])
          /\ Len(data.IPs) = 1
    /\ \E i, j \in 1..Len(scanned) :
          /\ i < j
          /\ scanned[i] = scanned[j]
          /\ IsHashLine(scanned[i])
          /\ Len(data.HostKeyHashes) = 2
          /\ data.HostKeyHashes[1] = data.HostKeyHashes[2]

\* The lines of h that are fingerprint lines, in order.
HashLines(h) == SelectSeq(h, IsHashLine)

\* C5: the fingerprint list has one entry per fingerprint line scanned, in
\* line order and without deduplication; the i-th entry holds the
\* fingerprint, host and key type of the i-th such line.
C5_OneFingerprintPerLine ==
    LET lines == HashLines(scanned)
    IN  /\ Len(data.HostKeyHashes) = Len(lines)
        /\ \A k \in 1..Len(lines) :
              /\ data.HostKeyHashes[k].Fingerprint = Calls[lines[k]].hash.grp[2]
              /\ data.HostKeyHashes[k].Hostname = Calls[lines[k]].hash.grp[3]
              /\ data.HostKeyHashes[k].KeyType = Calls[lines[k]].hash.grp[4]

\* Two different fingerprint lines, the first of them scanned again, with a
\* line that is no fingerprint line among them.
C5_Witness ==
    /\ Len(data.HostKeyHashes) = 3
    /\ data.HostKeyHashes[1] = data.HostKeyHashes[3]
    /\ data.HostKeyHashes[1] # data.HostKeyHashes[2]
    /\ Len(scanned) = 4

\* C6: a line whose trimmed content starts with "ssh-" or "ecdsa-" is
\* appended to the raw host key list only when it is scanned inside the
\* block, after a BEGIN delimiter with no END delimiter in between.
C6_BlockBoundary ==
    [][ScansLine =>
          (data'.HostKeys # data.HostKeys => InsideBlock(scanned', Len(scanned')))
    ]_vars

\* Key lines before the BEGIN delimiter and after the END delimiter, none
\* inside: nothing is captured.
C6_Witness ==
    /\ \E i, b, e, j \in 1..Len(scanned) :
          /\ i < b /\ b < e /\ e < j
          /\ IsKeyText(Calls[scanned[i]].trimmed)
          /\ Calls[scanned[b]].begin
          /\ Calls[scanned[e]].end /\ ~Calls[scanned[e]].begin
          /\ IsKeyText(Calls[scanned[j]].trimmed)
    /\ data.HostKeys = <<>>

\* The trimmed key lines of h inside the block, in order.
RECURSIVE BlockKeys(_, _)
BlockKeys(h, n) ==
    IF n = 0 THEN <<>>
    ELSE IF IsBlockKeyLine(h, n) THEN Append(BlockKeys(h, n - 1), Calls[h[n]].trimmed)
    ELSE BlockKeys(h, n - 1)

IsSpace(ch) == ch \in UnicodeSpace \cup ReSpace

\* C7: the raw host key list holds the key lines scanned inside the block,
\* one entry per line in transcript order with duplicates kept; every entry
\* begins with "ssh-" or "ecdsa-" and has no white space at either end.
C7_RawHostKeys ==
    /\ Len(data.HostKeys) = Cardinality({i \in 1..Len(scanned) : IsBlockKeyLine(scanned, i)})
    /\ data.HostKeys = BlockKeys(scanned, Len(scanned))
    /\ \A k \in 1..Len(data.HostKeys) :
          LET key == data.HostKeys[k]
          IN  /\ HasPrefix(key, StrSsh) \/ HasPrefix(key, StrEcdsa)
              /\ ~IsSpace(key[1])
              /\ ~IsSpace(key[Len(key)])

\* A key line padded with white space and scanned twice inside the block.
C7_Witness ==
    \E i, j \in 1..Len(scanned) :
        /\ i < j
        /\ scanned[i] = scanned[j]
        /\ IsBlockKeyLine(scanned, i)
        /\ IsBlockKeyLine(scanned, j)
        /\ IsSpace(scanned[i][1])
        /\ Len(data.HostKeys) = 2
        /\ data.HostKeys[1] = data.HostKeys[2]

\* The positions of the column separators of a table row.
PipePositions(l) == SelectSeq([i \in 1..Len(l) |-> i], LAMBDA i : l[i] = "|")

\* The text of column n of a table row, between its n-th and (n+1)-th "|".
Column(l, n) ==
    LET pipes == PipePositions(l)
    IN  IF Len(pipes) > n THEN SubSeq(l, pipes[n] + 1, pipes[n + 1] - 1) ELSE <<>>

\* A user marker line, and the user it names.
IsMarkerLine(l) == Calls[l].authUser.ok /\ ~IsDelimiter(l)

MarkerUser(l) == Calls[l].authUser.grp[1]

\* A row of the authorized-key table whose key type column is a key type.
IsKeyRow(l) ==
    /\ ~IsDelimiter(l)
    /\ ~Calls[l].authUser.ok
    /\ ~Calls[l].border
    /\ Calls[l].authRow.ok
    /\ IsKeyText(TrimSpace(Column(l, 1)))

\* Entry e holds the key type, fingerprint and comment columns of row l.
HoldsRow(e, l) ==
    /\ e.Keytype = TrimSpace(Column(l, 1))
    /\ e.FingerPrint = TrimSpace(Column(l, 2))
    /\ e.Comment = TrimSpace(Column(l, 4))

\* C8: a key row scanned right after the marker of user u stores the fields
\* of that row under u, replacing an entry u already had, and leaves the
\* entries of all other users as they were.
C8_MultiUserCapture ==
    [][(/\ ScansLine
        /\ scanned # <<>>
        /\ IsMarkerLine(scanned[Len(scanned)])
        /\ IsKeyRow(NewLine)) =>
          LET u == MarkerUser(scanned[Len(scanned)])
          IN  /\ DOMAIN data'.SSHKeyData = DOMAIN data.SSHKeyData \cup {u}
              /\ HoldsRow(data'.SSHKeyData[u], NewLine)
              /\ \A v \in DOMAIN data.SSHKeyData \ {u} :
                    data'.SSHKeyData[v] = data.SSHKeyData[v]
    ]_vars

\* Two users with different entries, one of them captured twice from
\* different rows and holding the later row.
C8_Witness ==
    \E u, v \in DOMAIN data.SSHKeyData :
        /\ u # v
        /\ data.SSHKeyData[u] # data.SSHKeyData[v]
        /\ \E i, j \in 1..(Len(scanned) - 1) :
              /\ i < j
              /\ IsMarkerLine(scanned[i]) /\ MarkerUser(scanned[i]) = u
              /\ IsMarkerLine(scanned[j]) /\ MarkerUser(scanned[j]) = u
              /\ IsKeyRow(scanned[i + 1]) /\ IsKeyRow(scanned[j + 1])
              /\ ~HoldsRow(data.SSHKeyData[u], scanned[i + 1])
              /\ HoldsRow(data.SSHKeyData[u], scanned[j + 1])

\* The step commits an authorized-key row: the pending user is disarmed.
CommitsEntry == ScansLine /\ currentAuthUser # <<>> /\ currentAuthUser' = <<>>

\* C9: the entry committed from a row has empty options when the options
\* column, trimmed, is exactly "-", and the trimmed options column otherwise.
C9_OptionsPlaceholder ==
    [][CommitsEntry =>
          LET col == TrimSpace(Column(NewLine, 3))
          IN  data'.SSHKeyData[currentAuthUser].Options =
                  IF col = <<"-">> THEN <<>> ELSE col
    ]_vars

\* One entry from a row with the placeholder, one from a row whose options
\* column is padded with blanks.
C9_Witness ==
    \E u, v \in DOMAIN data.SSHKeyData :
        /\ data.SSHKeyData[u].Options = <<>>
        /\ data.SSHKeyData[v].Options # <<>>
        /\ \E i, j \in 1..Len(scanned) :
              /\ IsKeyRow(scanned[i]) /\ IsKeyRow(scanned[j])
              /\ TrimSpace(Column(scanned[i], 3)) = <<"-">>
              /\ Column(scanned[j], 3) # TrimSpace(Column(scanned[j], 3))
              /\ data.SSHKeyData[v].Options = TrimSpace(Column(scanned[j], 3))

\* Every field for which no scanned line matched is empty.
AbsentFieldsEmpty ==
    LET lines == 1..Len(scanned)
    IN  /\ (\A i \in lines : ~GivesHostname(scanned, i)) => data.Hostname = <<>>
        /\ (\A i \in lines : ~IsAddressRow(scanned[i])) => data.IPs = <<>>
        /\ (\A i \in lines : ~IsHashLine(scanned[i])) => data.HostKeyHashes = <<>>
        /\ (\A i \in lines : ~IsBlockKeyLine(scanned, i)) => data.HostKeys = <<>>
        /\ ((\A i \in lines : ~IsMarkerLine(scanned[i]))
              \/ (\A i \in lines : ~IsKeyRow(scanned[i])))
           => DOMAIN data.SSHKeyData = {}

\* C10: the scan of any transcript ends and returns a result; there is no
\* outcome other than the returned data, and every field for which no line
\* matched is empty.
C10_NeverFails ==
    /\ <>(pc = "done")
    /\ [](pc \in {"scan", "done"} /\ AbsentFieldsEmpty)

\* A returned transcript that stops inside a host key block and inside a
\* key table, with nothing extracted.
C10_Witness ==
    /\ pc = "done"
    /\ scanned # <<>>
    /\ inHostKeys
    /\ currentAuthUser # <<>>
    /\ data = [Hostname |-> <<>>, IPs |-> <<>>, HostKeyHashes |-> <<>>,
               HostKeys |-> <<>>, SSHKeyData |-> <<>>]

\* What line l, once scanned, leaves in the result.
Extracted(l) ==
    /\ IsLoginLine(l) => data.Hostname # <<>>
    /\ \A a \in AddressesOf(l) : contains(data.IPs, a)
    /\ IsHashLine(l) =>
          \E k \in 1..Len(data.HostKeyHashes) :
              data.HostKeyHashes[k].Fingerprint = Calls[l].hash.grp[2]

\* C11: no line-length limit is enforced: every line of the buffer is
\* scanned whatever the length of the lines before it, so in the returned
\* result a matching line that follows a long line is extracted.
C11_NoLineLengthLimit ==
    pc = "done" =>
        \A i \in 1..Len(unread) :
            FitsBuffer(unread[i]) => Extracted(dropCR(unread[i]))

Str256 == <<"2", "5", "6">>

StrAbcd == <<"S", "H", "A", "2", "5", "6", ":", "a", "b", "c", "d", "1",
    "2", "3", "4">>

StrMyhost == <<"m", "y", "h", "o", "s", "t">>

StrED25519 == <<"E", "D", "2", "5", "5", "1", "9">>

\* The bit-length text of an entry: its algorithm label without " bits".
BitLength(e) == SubSeq(e.Algorithm, 1, Len(e.Algorithm) - Len(StrBits))

\* C12: the entry of a fingerprint line holds the four captured groups each
\* in its own field (bits, fingerprint, host, key type) and its algorithm
\* label is the bit-length text followed by " bits"; the line
\* "256 SHA256:abcd1234 root@myhost (ED25519)" yields bit length "256",
\* fingerprint "SHA256:abcd1234", host "myhost", key type "ED25519" and
\* algorithm label "256 bits".
C12_FingerprintFieldMapping ==
    LET lines == HashLines(scanned)
    IN  \A k \in 1..Len(lines) :
           LET e == data.HostKeyHashes[k]
               m == Calls[lines[k]].hash.grp
           IN  /\ BitLength(e) = m[1]
               /\ e.Fingerprint = m[2]
               /\ e.Hostname = m[3]
               /\ e.KeyType = m[4]
               /\ e.Algorithm = m[1] \o StrBits
               /\ lines[k] = HashEd =>
                     /\ BitLength(e) = Str256
                     /\ e.Fingerprint = StrAbcd
                     /\ e.Hostname = StrMyhost
                     /\ e.KeyType = StrED25519
                     /\ e.Algorithm = Str256 \o StrBits

\* The example line and a line with other captures have both been scanned.
C12_Witness ==
    /\ Len(data.HostKeyHashes) = 2
    /\ scanned = <<HashEd, HashRsa>>
    /\ data.HostKeyHashes[1].Algorithm = Str256 \o StrBits
    /\ data.HostKeyHashes[2].KeyType # data.HostKeyHashes[1].KeyType

\* C13: the fingerprint text of every entry of the fingerprint list begins
\* with the literal prefix "SHA256:".
C13_FingerprintPrefix ==
    \A k \in 1..Len(data.HostKeyHashes) :
        HasPrefix(data.HostKeyHashes[k].Fingerprint, StrSHA256)

\* A line with an MD5 digest has been scanned between two fingerprint lines
\* and has left no entry.
C13_Witness ==
    /\ Len(scanned) = 3
    /\ scanned[2] = HashMd5
    /\ Len(data.HostKeyHashes) = 2
    /\ data.HostKeyHashes[1].Fingerprint # data.HostKeyHashes[2].Fingerprint

Str10005 == <<"1", "0", ".", "0", ".", "0", ".", "5">>

\* The positions of character ch in text t.
PositionsOf(t, ch) == {i \in 1..Len(t) : t[i] = ch}

\* Digit runs separated by three dots.
IsDottedQuad(a) ==
    /\ Len(a) > 0
    /\ \A i \in 1..Len(a) : a[i] \in Digit \cup {"."}
    /\ Cardinality(PositionsOf(a, ".")) = 3
    /\ a[1] # "." /\ a[Len(a)] # "."
    /\ \A i \in 1..(Len(a) - 1) : ~(a[i] = "." /\ a[i + 1] = ".")

\* Lower-case hextets and colons, then "/" and a decimal prefix length.
IsHextetWithPrefix(a) ==
    /\ Cardinality(PositionsOf(a, "/")) = 1
    /\ LET p == Least(PositionsOf(a, "/"))
       IN  /\ 1 < p /\ p < Len(a)
           /\ \A i \in 1..(p - 1) :
                 a[i] \in Digit \cup {"a", "b", "c", "d", "e", "f", ":"}
           /\ \A i \in (p + 1)..Len(a) : a[i] \in Digit

\* Column text col holds txt with white space on both sides.
Padded(col, txt) ==
    /\ Len(col) > 1
    /\ IsSpace(col[1]) /\ IsSpace(col[Len(col)])
    /\ TrimSpace(col) = txt

\* The addresses of line l read from its columns: the address column of a
\* row whose interface column is "eth0" and whose up column is "True".
RowAddresses(l) ==
    {TrimSpace(Column(l, n + 2)) : n \in
        {m \in 1..Len(PipePositions(l)) :
            /\ Padded(Column(l, m), StrEth0)
            /\ Padded(Column(l, m + 1), StrTrue)
            /\ Padded(Column(l, m + 2), TrimSpace(Column(l, m + 2)))
            /\ \/ IsDottedQuad(TrimSpace(Column(l, m + 2)))
               \/ IsHextetWithPrefix(TrimSpace(Column(l, m + 2)))}}

\* C14: the address list holds exactly the address columns of the scanned
\* rows whose interface column is "eth0" and whose up column is "True" and
\* whose address column is a dotted quad or a hextet address with
\* "/prefixlength"; such a row with 10.0.0.5 puts "10.0.0.5" in the list,
\* and a row of another interface or with another up flag adds nothing.
C14_AddressRowShape ==
    /\ {data.IPs[k] : k \in 1..Len(data.IPs)}
           = UNION {RowAddresses(scanned[i]) : i \in 1..Len(scanned)}
    /\ \A i \in 1..Len(scanned) :
           scanned[i] = Addr5 => contains(data.IPs, Str10005)

\* The 10.0.0.5 row, a row of eth1, a row that is not up and a hextet row
\* have been scanned; only the first and the last left an address.
C14_Witness ==
    /\ scanned = <<AddrEth1, Addr5, AddrDown, Addr6>>
    /\ Len(data.IPs) = 2
    /\ data.IPs[1] = Str10005
    /\ IsHextetWithPrefix(data.IPs[2])

\* Text s without the white space (\s) at its end.
RECURSIVE DropTrailingSpace(_)
DropTrailingSpace(s) ==
    IF s # <<>> /\ s[Len(s)] \in ReSpace
    THEN DropTrailingSpace(SubSeq(s, 1, Len(s) - 1))
    ELSE s

\* The longest run without white space at the end of s.
RECURSIVE LastToken(_)
LastToken(s) ==
    IF s = <<>> \/ s[Len(s)] \in ReSpace THEN <<>>
    ELSE Append(LastToken(SubSeq(s, 1, Len(s) - 1)), s[Len(s)])

\* The text of line l in front of its closing "login:", or <<>> when the
\* line does not end with white space, "login:" and optional white space.
BeforeLogin(l) ==
    LET body == DropTrailingSpace(l)
        n    == Len(body) - Len(StrLogin)
    IN  IF n > 0 /\ SubSeq(body, n + 1, Len(body)) = StrLogin /\ body[n] \in ReSpace
        THEN DropTrailingSpace(SubSeq(body, 1, n))
        ELSE <<>>

\* Line l ends with a token, white space, "login:" and optional white space.
EndsWithLoginPrompt(l) == BeforeLogin(l) # <<>>

\* The token in front of "login:".
LoginToken(l) == LastToken(BeforeLogin(l))

\* Line l is a login prompt and nothing else: the token starts the line.
IsWholeLineLoginPrompt(l) ==
    EndsWithLoginPrompt(l) /\ BeforeLogin(l) = LoginToken(l)

\* The step scans a key line of the host key block that names a host.
ScansBlockKeyHostLine == ScansLine /\ IsBlockKeyHostLine(scanned', Len(scanned'))

\* C16 as stated: the login-prompt rule sets the hostname only from a line
\* that is exactly one token, white space, "login:" and optional trailing
\* white space, the hostname being that token; a line with further text
\* before the token does not set the hostname.
C16_WholeLineLoginPrompt ==
    [][ScansLine =>
          /\ (data.Hostname = <<>> /\ IsWholeLineLoginPrompt(NewLine))
                => data'.Hostname = LoginToken(NewLine)
          /\ (~IsWholeLineLoginPrompt(NewLine) /\ ~ScansBlockKeyHostLine)
                => data'.Hostname = data.Hostname]_vars

\* C16, amended: the login-prompt rule sets the hostname from any line that
\* ends with a token, white space, "login:" and optional trailing white
\* space, whatever text comes before; the hostname is the last token in
\* front of "login:", and a line of any other shape does not set it.
C16_LastTokenBeforeLogin ==
    [][ScansLine =>
          /\ (data.Hostname = <<>> /\ EndsWithLoginPrompt(NewLine))
                => data'.Hostname = LoginToken(NewLine)
          /\ (~EndsWithLoginPrompt(NewLine) /\ ~ScansBlockKeyHostLine)
                => data'.Hostname = data.Hostname]_vars

\* A line with text after the prompt has set nothing, and then a prompt with
\* text before its token has set the hostname to that token.
C16_Witness ==
    /\ scanned = <<LoginTail, LoginPre>>
    /\ ~IsWholeLineLoginPrompt(LoginPre)
    /\ data.Hostname = <<"c">>

\* A BEGIN line holds the BEGIN marker; an END line holds the END marker
\* and is no BEGIN line (the BEGIN test comes first).
IsBeginLine(l) == StringsContains(l, BeginHostKeys)

IsEndLine(l) == StringsContains(l, EndHostKeys) /\ ~IsBeginLine(l)

\* The positions of the delimiter lines of h.
DelimiterPositions(h) == {i \in 1..Len(h) : IsBeginLine(h[i]) \/ IsEndLine(h[i])}

Greatest(S) == CHOOSE i \in S : \A j \in S : j <= i

\* The most recent delimiter line of h is a BEGIN line.
LastDelimiterIsBegin(h) ==
    /\ DelimiterPositions(h) # {}
    /\ IsBeginLine(h[Greatest(DelimiterPositions(h))])

\* C17: inHostKeys starts false and is true exactly when the most recent
\* delimiter line scanned is a BEGIN line, so BEGIN turns it on, END turns
\* it off, either is a no-op when nothing is to change, no other line changes
\* it and a block without END stays open up to the return; no delimiter line
\* is stored in the raw host key list.
C17_BlockFlag ==
    /\ inHostKeys = LastDelimiterIsBegin(scanned)
    /\ \A k \in 1..Len(data.HostKeys) :
           /\ ~StringsContains(data.HostKeys[k], BeginHostKeys)
           /\ ~StringsContains(data.HostKeys[k], EndHostKeys)

\* An END line outside a block, then a block opened twice, the second time
\* by a BEGIN line that starts like a key, and left open at the return.
C17_Witness ==
    /\ pc = "done"
    /\ scanned = <<EndLine, BeginLine, KeyBegin, KeyC>>
    /\ inHostKeys
    /\ data.HostKeys = <<KeyC>>

\* The positions of the marker lines of h, and of its key rows.
MarkerPositions(h) == {i \in 1..Len(h) : IsMarkerLine(h[i])}

KeyRowPositions(h) == {i \in 1..Len(h) : IsKeyRow(h[i])}

\* The user of the most recent marker line of h.
LastMarkerUser(h) == MarkerUser(h[Greatest(MarkerPositions(h))])

\* The step writes an entry of the authorized-key map.
WritesEntry == CommitsEntry \/ data'.SSHKeyData # data.SSHKeyData

\* C18: a marker line makes its user the pending user, whoever was pending,
\* and writes nothing; every entry written is written under the user of the
\* most recent marker line before the committing row, so a user whose
\* marker was followed by a newer marker gets nothing from later rows.
C18_LatestMarkerOwnsRow ==
    [][ScansLine =>
          /\ IsMarkerLine(NewLine) =>
                /\ currentAuthUser' = MarkerUser(NewLine)
                /\ data'.SSHKeyData = data.SSHKeyData
          /\ WritesEntry =>
                /\ MarkerPositions(scanned) # {}
                /\ LET u == LastMarkerUser(scanned)
                   IN  /\ DOMAIN data'.SSHKeyData = DOMAIN data.SSHKeyData \cup {u}
                       /\ HoldsRow(data'.SSHKeyData[u], NewLine)
                       /\ \A v \in DOMAIN data.SSHKeyData \ {u} :
                             data'.SSHKeyData[v] = data.SSHKeyData[v]
    ]_vars

\* The marker of one user, right away the marker of another, then a key
\* row: only the second user has an entry.
C18_Witness ==
    /\ Len(scanned) = 3
    /\ IsMarkerLine(scanned[1]) /\ IsMarkerLine(scanned[2])
    /\ MarkerUser(scanned[1]) # MarkerUser(scanned[2])
    /\ IsKeyRow(scanned[3])
    /\ DOMAIN data.SSHKeyData = {MarkerUser(scanned[2])}
    /\ currentAuthUser = <<>>

\* A marker line of h has no key row after it yet.
AwaitsRow(h) ==
    /\ MarkerPositions(h) # {}
    /\ \A i \in KeyRowPositions(h) : i < Greatest(MarkerPositions(h))

\* C19: an entry is captured at most once per marker line: the first key
\* row (key type starting "ssh-" or "ecdsa-") after a marker line is written
\* under its user and clears the pending user; a further key row before the
\* next marker line changes neither the map nor the pending user.
C19_OncePerMarker ==
    [][(ScansLine /\ IsKeyRow(NewLine)) =>
          IF AwaitsRow(scanned)
          THEN /\ currentAuthUser = LastMarkerUser(scanned)
               /\ currentAuthUser' = <<>>
               /\ HoldsRow(data'.SSHKeyData[LastMarkerUser(scanned)], NewLine)
          ELSE /\ data'.SSHKeyData = data.SSHKeyData
               /\ currentAuthUser' = currentAuthUser
    ]_vars

\* A marker line followed by two different key rows: the entry holds the
\* first row, not the second.
C19_Witness ==
    /\ Len(scanned) = 3
    /\ IsMarkerLine(scanned[1])
    /\ IsKeyRow(scanned[2]) /\ IsKeyRow(scanned[3])
    /\ HoldsRow(data.SSHKeyData[MarkerUser(scanned[1])], scanned[2])
    /\ ~HoldsRow(data.SSHKeyData[MarkerUser(scanned[1])], scanned[3])
    /\ currentAuthUser = <<>>

\* The key rows of h that are the first after some marker line.
CommitPositions(h) ==
    {i \in KeyRowPositions(h) : AwaitsRow(SubSeq(h, 1, i - 1))}

\* C20: table rows count only while a user is pending: a key row scanned
\* before any marker line, or after a commit and before the next marker
\* line, leaves the map unchanged; every key of the map is the user of a
\* marker line scanned, and there are never more commits than marker lines.
C20_RowsOnlyWhilePending ==
    /\ [][ScansLine =>
            /\ (currentAuthUser = <<>> /\ ~IsMarkerLine(NewLine)) =>
                  /\ data'.SSHKeyData = data.SSHKeyData
                  /\ currentAuthUser' = <<>>
            /\ WritesEntry => Len(scanned') \in CommitPositions(scanned')
       ]_vars
    /\ [](/\ DOMAIN data.SSHKeyData
                \subseteq {MarkerUser(scanned[i]) : i \in MarkerPositions(scanned)}
          /\ (currentAuthUser # <<>>) = AwaitsRow(scanned)
          /\ Cardinality(CommitPositions(scanned))
                <= Cardinality(MarkerPositions(scanned)))

\* A key row before any marker line and a key row after a commit have both
\* been scanned, and the map holds the one entry of the one marker line.
C20_Witness ==
    /\ Len(scanned) = 4
    /\ IsKeyRow(scanned[1]) /\ IsMarkerLine(scanned[2])
    /\ IsKeyRow(scanned[3]) /\ IsKeyRow(scanned[4])
    /\ scanned[4] # scanned[3]
    /\ DOMAIN data.SSHKeyData = {MarkerUser(scanned[2])}
    /\ HoldsRow(data.SSHKeyData[MarkerUser(scanned[2])], scanned[3])

\* The local variables after the loop has run over lines, one call alone.
RECURSIVE RunAlone(_, _)
RunAlone(st, lines) ==
    IF lines = <<>> THEN st
    ELSE RunAlone(LineStep(st, dropCR(Head(lines)), Calls[dropCR(Head(lines))]),
                  Tail(lines))

\* C15: a call builds its scan state and its result from scratch and shares
\* nothing with other calls: whatever calls ran before it or run interleaved
\* with it, a call returns the result of scanning its buffer alone, so calls
\* on equal buffers return equal results.
C15_CallsIndependent ==
    /\ \A i \in DOMAIN call :
           call[i].pc = "done" =>
               call[i].result = RunAlone(NewLocals, content).data
    /\ \A i, j \in DOMAIN call :
           (call[i].pc = "done" /\ call[j].pc = "done") =>
               call[i].result = call[j].result

\* One call has returned a result that holds something while another call
\* of the same buffer is in the middle of it.
C15_Witness ==
    /\ Len(content) = 3
    /\ call[1].pc = "done"
    /\ call[1].result.HostKeys # <<>>
    /\ call[1].result.HostKeyHashes # <<>>
    /\ call[2].pc = "scan"
    /\ call[2].pos = 2

\* A border of the key table: the prefix "ci-info: +" on a line that is no
\* user marker.
IsBorderLine(l) ==
    /\ HasPrefix(l, StrCiInfoBorder)
    /\ ~IsMarkerLine(l)
    /\ ~IsDelimiter(l)

\* A row of the key table whose key type column is no key type, such as the
\* header row.
IsOtherRow(l) ==
    /\ ~IsDelimiter(l)
    /\ ~Calls[l].authUser.ok
    /\ Calls[l].authRow.ok
    /\ ~IsKeyText(TrimSpace(Column(l, 1)))

\* C21: while a user is pending, a border line and a table row whose key
\* type column does not start with "ssh-" or "ecdsa-" leave the pending user
\* and the authorized-key map as they are, so the user stays pending over any
\* number of such lines, up to a key row or the end of the transcript.
C21_BorderAndHeaderKeepPending ==
    [][(/\ ScansLine
        /\ currentAuthUser # <<>>
        /\ IsBorderLine(NewLine) \/ IsOtherRow(NewLine)) =>
          /\ currentAuthUser' = currentAuthUser
          /\ data'.SSHKeyData = data.SSHKeyData
    ]_vars

\* A marker line, a border, the header row and another border have been
\* scanned up to the return: the user is still pending and has no entry.
C21_Witness ==
    /\ pc = "done"
    /\ Len(scanned) = 4
    /\ IsMarkerLine(scanned[1])
    /\ IsBorderLine(scanned[2])
    /\ IsOtherRow(scanned[3])
    /\ IsBorderLine(scanned[4])
    /\ currentAuthUser = MarkerUser(scanned[1])
    /\ DOMAIN data.SSHKeyData = {}

\* The addresses of line l in the order of the rules: IPv4 row, IPv6 row.
LineAddresses(l) ==
    (IF Calls[l].ipv4.ok THEN <<Calls[l].ipv4.grp[1]>> ELSE <<>>)
    \o (IF Calls[l].ipv6.ok THEN <<Calls[l].ipv6.grp[1]>> ELSE <<>>)

\* The fingerprint entries of line l: one for a fingerprint line.
LineFingerprints(l) ==
    IF IsHashLine(l)
    THEN <<[KeyType     |-> Calls[l].hash.grp[4],
            Fingerprint |-> Calls[l].hash.grp[2],
            Hostname    |-> Calls[l].hash.grp[3],
            Algorithm   |-> Calls[l].hash.grp[1] \o StrBits]>>
    ELSE <<>>

\* C22: the hostname, IPv4, IPv6 and fingerprint rules run on every line,
\* each on its own: whatever the line is besides (delimiter, user marker,
\* border, table row), whether the scan is inside a host key block or not
\* and whether a user is pending or not, the line adds its new addresses and
\* its fingerprint and, when no hostname is set, its login token.
C22_LineRulesOnEveryLine ==
    [][ScansLine =>
          /\ data'.IPs = data.IPs
                \o SelectSeq(LineAddresses(NewLine), LAMBDA a : ~contains(data.IPs, a))
          /\ data'.HostKeyHashes = data.HostKeyHashes \o LineFingerprints(NewLine)
          /\ (data.Hostname = <<>> /\ IsLoginLine(NewLine))
                => data'.Hostname = Calls[NewLine].hostname.grp[1]
    ]_vars

\* A marker line that is a login prompt, a BEGIN delimiter with an address,
\* a border with an address and an END delimiter with a fingerprint: each
\* has left what it carries, inside the block and with a user pending.
C22_Witness ==
    /\ scanned = <<MarkerLogin, BeginAddr, BorderAddr, EndHash>>
    /\ currentAuthUser = <<"u">>
    /\ Len(data.IPs) = 2
    /\ Len(data.HostKeyHashes) = 1
    /\ data.Hostname = <<"m">>

\* Line l, scanned in the present state, satisfies none of the rules: it is
\* no login prompt, no address row, no fingerprint line, no delimiter, no
\* key line inside the block, no user marker and, with a user pending, no
\* key row.
Unrecognized(l) ==
    /\ ~IsLoginLine(l)
    /\ ~IsAddressRow(l)
    /\ ~IsHashLine(l)
    /\ ~IsDelimiter(l)
    /\ ~(inHostKeys /\ IsKeyText(TrimSpace(l)))
    /\ ~IsMarkerLine(l)
    /\ ~(currentAuthUser # <<>> /\ IsKeyRow(l))

\* C23: a line that satisfies none of the rules leaves the hostname, the
\* four collections, inHostKeys and the pending user as they are, and the
\* scan goes on with the next line.
C23_UnrecognizedLinesInert ==
    [][(ScansLine /\ Unrecognized(NewLine)) =>
          /\ data' = data
          /\ inHostKeys' = inHostKeys
          /\ currentAuthUser' = currentAuthUser
          /\ pc' = "scan"
    ]_vars

\* Inside a host key block and with a user pending, a line of plain text and
\* the header row have been scanned: nothing is extracted and both are
\* still on.
C23_Witness ==
    /\ scanned = <<BeginLine, UserU, Hello, Header>>
    /\ inHostKeys
    /\ currentAuthUser = <<"u">>
    /\ data = NewLocals.data

\* Text t neither starts nor ends with white space.
IsTrimmed(t) == t = <<>> \/ (~IsSpace(t[1]) /\ ~IsSpace(t[Len(t)]))

\* C24: every entry of the authorized-key map has a key type that starts
\* with "ssh-" or "ecdsa-", has its four fields free of leading and trailing
\* white space, and never has a lone "-" as options.
C24_EntriesWellFormed ==
    \A u \in DOMAIN data.SSHKeyData :
        LET e == data.SSHKeyData[u]
        IN  /\ IsKeyText(e.Keytype)
            /\ IsTrimmed(e.Keytype)
            /\ IsTrimmed(e.FingerPrint)
            /\ IsTrimmed(e.Options)
            /\ IsTrimmed(e.Comment)
            /\ e.Options # <<"-">>

\* An entry from a row with a blank fingerprint column, the placeholder as
\* options and a comment behind a vertical tab.
C24_Witness ==
    /\ scanned = <<UserU, RowBlank>>
    /\ DOMAIN data.SSHKeyData = {<<"u">>}
    /\ data.SSHKeyData[<<"u">>].FingerPrint = <<>>
    /\ data.SSHKeyData[<<"u">>].Options = <<>>
    /\ data.SSHKeyData[<<"u">>].Comment = <<"c">>

\* A row of a "ci-info:" table: the prefix, white space and a column
\* separator, on a line that is neither delimiter nor user marker.
IsTableRow(l) ==
    /\ ~IsDelimiter(l)
    /\ ~Calls[l].authUser.ok
    /\ HasPrefix(l, StrCiInfo)
    /\ PipePositions(l) # <<>>
    /\ PipePositions(l)[1] > Len(StrCiInfo) + 1
    /\ \A i \in (Len(StrCiInfo) + 1)..(PipePositions(l)[1] - 1) : l[i] \in ReSpace

\* The number of pipe-delimited columns of a row.
ColumnCount(l) == Len(PipePositions(l)) - 1

\* The first four columns of row l hold something and the first is a key type.
HasKeyInFirstFour(l) ==
    /\ ColumnCount(l) >= 4
    /\ \A n \in 1..4 : Column(l, n) # <<>>
    /\ IsKeyText(TrimSpace(Column(l, 1)))

\* The step stores the first four columns of the row it scans.
CommitsFirstFour ==
    /\ CommitsEntry
    /\ HoldsRow(data'.SSHKeyData[currentAuthUser], NewLine)

\* C26 as stated: while a user is pending only a row of exactly four columns
\* is read as an authorized-key row; a row of fewer or of more columns
\* commits no entry even when its first column starts with "ssh-" or
\* "ecdsa-".
C26_ExactlyFourColumns ==
    [][(ScansLine /\ IsTableRow(NewLine)) =>
          /\ ColumnCount(NewLine) # 4 => ~WritesEntry
          /\ (currentAuthUser # <<>> /\ ColumnCount(NewLine) = 4
                 /\ HasKeyInFirstFour(NewLine)) => CommitsFirstFour
    ]_vars

\* C26, amended: while a user is pending a row is read by its first four
\* columns: a row of fewer than four columns commits no entry, and a row of
\* four or more non-empty columns whose first column starts with "ssh-" or
\* "ecdsa-" commits an entry made of its first four columns, whatever
\* follows them.
C26_FirstFourColumns ==
    [][(ScansLine /\ IsTableRow(NewLine)) =>
          /\ ColumnCount(NewLine) < 4 => ~WritesEntry
          /\ (currentAuthUser # <<>> /\ HasKeyInFirstFour(NewLine)) => CommitsFirstFour
    ]_vars

\* After a marker line a key row of three columns has committed nothing and
\* the key row of five columns after it has committed its first four.
C26_Witness ==
    /\ scanned = <<UserU, Row3, Row5>>
    /\ ColumnCount(Row3) = 3 /\ ColumnCount(Row5) = 5
    /\ currentAuthUser = <<>>
    /\ HoldsRow(data.SSHKeyData[<<"u">>], Row5)

\* The places of address a in the address list.
PlacesOf(ips, a) == {k \in 1..Len(ips) : ips[k] = a}

\* C25: no stored address is empty or has leading or trailing white space,
\* and the eth0 rows scanned whose address columns are equal after trimming
\* give one entry of the address list between them.
C25_AddressesTrimmed ==
    /\ \A k \in 1..Len(data.IPs) : data.IPs[k] # <<>> /\ IsTrimmed(data.IPs[k])
    /\ \A i \in 1..Len(scanned) : \A a \in RowAddresses(scanned[i]) :
          Cardinality(PlacesOf(data.IPs, a)) = 1

\* Two rows with the same IPv4 address and two with the same IPv6 address,
\* each pair differing in the padding of the columns only, have been scanned
\* and the list holds the two addresses.
C25_Witness ==
    /\ scanned = <<Addr6Pad, Addr5, Addr5Pad, Addr6>>
    /\ Column(Addr5, 3) # Column(Addr5Pad, 3)
    /\ Column(Addr6, 3) # Column(Addr6Pad, 3)
    /\ data.IPs = <<TrimSpace(Column(Addr6, 3)), TrimSpace(Column(Addr5, 3))>>

\* Sequence s is an initial part of sequence t.
IsPrefixOf(s, t) == Len(s) <= Len(t) /\ SubSeq(t, 1, Len(s)) = s

\* C27: every step of the scan leaves the result of the lines scanned so far
\* inside the result of the longer transcript: the addresses, fingerprints
\* and raw host keys before the step are initial parts of those after it, no
\* user leaves the authorized-key map, and a hostname once set is kept.  The
\* result of a line-prefix P of a transcript T is the state after Len(P)
\* steps of the scan of T, so the relation carries from P to T step by step.
C27_TruncationMonotone ==
    [][/\ IsPrefixOf(data.IPs, data'.IPs)
       /\ IsPrefixOf(data.HostKeyHashes, data'.HostKeyHashes)
       /\ IsPrefixOf(data.HostKeys, data'.HostKeys)
       /\ DOMAIN data.SSHKeyData \subseteq DOMAIN data'.SSHKeyData
       /\ data.Hostname # <<>> => data'.Hostname = data.Hostname
    ]_vars

\* The hostname of the first line is still the hostname after a block key
\* line that names another host, and the address and the raw key of the
\* later lines have been appended.
C27_Witness ==
    /\ scanned = <<LoginA, Addr5, BeginLine, KeyC>>
    /\ data.Hostname = Calls[LoginA].hostname.grp[1]
    /\ Calls[KeyC].sshKey.ok
    /\ Calls[KeyC].sshKey.grp[2] # data.Hostname
    /\ Len(data.IPs) = 1
    /\ Len(data.HostKeys) = 1

\* Line l has the shape "<keytype> <key-blob> root@<h>".
IsKeyHostLine(l) == Calls[l].sshKey.ok

\* C28: a line of the shape "<keytype> <key-blob> root@<h>" scanned while
\* inHostKeys is false is not stored as a raw host key and does not set the
\* hostname (only a login prompt on the same line can), and while no login
\* line and no BEGIN line has been scanned the hostname is empty.
C28_KeyFallbackInsideBlockOnly ==
    /\ [][(ScansLine /\ ~inHostKeys /\ IsKeyHostLine(NewLine)) =>
             /\ data'.HostKeys = data.HostKeys
             /\ ~IsLoginLine(NewLine) => data'.Hostname = data.Hostname
       ]_vars
    /\ []((\A i \in 1..Len(scanned) :
              ~IsLoginLine(scanned[i]) /\ ~Calls[scanned[i]].begin)
          => data.Hostname = <<>>)

\* Key lines naming two hosts have been scanned, before and after an END
\* line, with no BEGIN line and no login line: nothing is stored and the
\* hostname is empty.
C28_Witness ==
    /\ scanned = <<KeyC, EndLine, dropCR(KeyD), KeyC>>
    /\ IsKeyHostLine(KeyC) /\ IsKeyHostLine(dropCR(KeyD))
    /\ ~inHostKeys
    /\ data.HostKeys = <<>>
    /\ data.Hostname = <<>>

\* No character of text t is in the set S.
FreeOf(t, S) == \A i \in 1..Len(t) : t[i] \notin S

\* The step scans a line that sets the hostname: the guard is open and the
\* line is a login line or a key line of the block that names a host.
SetsHostname ==
    /\ ScansLine
    /\ data.Hostname = <<>>
    /\ IsLoginLine(NewLine) \/ IsBlockKeyHostLine(scanned', Len(scanned'))

\* The empty string stands for "unset" and is never captured: a line that
\* sets the hostname leaves it non-empty, a set hostname is never assigned
\* again, and a marker line leaves a user pending.
SentinelSteps ==
    /\ SetsHostname => data'.Hostname # <<>>
    /\ data.Hostname # <<>> => data'.Hostname = data.Hostname
    /\ (ScansLine /\ IsMarkerLine(NewLine)) => currentAuthUser' # <<>>

\* C29 as stated: the empty string is the "unset" value of the hostname and
\* of the pending user and is never captured; the hostname holds no white
\* space, the pending user and the users of the authorized-key map hold
\* neither "+" nor white space, and no user of the map is empty.
C29_NoWhiteSpaceCaptured ==
    /\ [][SentinelSteps]_vars
    /\ [](/\ FreeOf(data.Hostname, UnicodeSpace)
          /\ FreeOf(currentAuthUser, UnicodeSpace \cup {"+"})
          /\ \A u \in DOMAIN data.SSHKeyData :
                u # <<>> /\ FreeOf(u, UnicodeSpace \cup {"+"}))

\* C29, amended: the same, with white space read as the class \s of the
\* expressions (space, tab, newline, form feed, carriage return): the
\* hostname holds none of these, the pending user and the users of the map
\* hold neither "+" nor any of these, and no user of the map is empty.  Other
\* white space, such as a vertical tab, can be part of a captured token.
C29_NoReSpaceCaptured ==
    /\ [][SentinelSteps]_vars
    /\ [](/\ FreeOf(data.Hostname, ReSpace)
          /\ FreeOf(currentAuthUser, ReSpace \cup {"+"})
          /\ \A u \in DOMAIN data.SSHKeyData :
                u # <<>> /\ FreeOf(u, ReSpace \cup {"+"}))

\* A prompt without a token and a marker without a user name have set
\* nothing; the hostname and the user of the committed row are the tokens
\* with the vertical tab.
C29_Witness ==
    /\ scanned = <<LoginBare, LoginVT, MarkerVT, RowRsa>>
    /\ data.Hostname = <<"a", "<VT>", "b">>
    /\ DOMAIN data.SSHKeyData = {<<"u", "<VT>", "v">>}
    /\ currentAuthUser = <<>>

\* The tasks of the call whose Wait returned an error.
FailedTasks == {i \in 1..wait.tasks : wait.err[i] # <<>>}

\* C30: WaitOnManyTasks returns only after the goroutine of every task has
\* finished; it returns nil exactly when there is no task or every Wait gave
\* nil and otherwise the error of one of the failed tasks; a goroutine with
\* an error to send always finds room in errCh; and as every Wait returns,
\* the function returns in every interleaving.
C30_WaitOnManyTasks ==
    /\ [](wait.ret.returned =>
            /\ \A i \in 1..wait.tasks : wait.waiter[i] = "done"
            /\ wait.ret.err = <<>> <=> FailedTasks = {}
            /\ wait.ret.err # <<>> =>
                  /\ wait.ret.err[1] \in FailedTasks
                  /\ wait.ret.err = wait.err[wait.ret.err[1]])
    /\ [](\A i \in 1..wait.tasks :
            wait.waiter[i] = "send" => Len(wait.errCh) < wait.cap)
    /\ <>(wait.ret.returned)

\* Three tasks were waited on at once: the second task failed before the
\* first one did, the third succeeded, and the call returned the error of
\* the second.
C30_Witness ==
    /\ wait.tasks = 3
    /\ wait.ret.returned
    /\ wait.ret.err = <<2>>
    /\ FailedTasks = {1, 2}
    /\ wait.errCh = <<1>>

====
